---- MODULE Spec2Model ----
(***************************************************************************)
(* Streaming deployment runs of the staged deployment orchestrator.        *)
(*                                                                         *)
(* One run of one of the three streaming entry points is modelled:         *)
(*   blueprints_follow          api/routes/blueprints.py                   *)
(*   dimensional_models_follow  api/routes/dimensional_models.py           *)
(*   dimensional_models_staged  api/routes/utilities.py                    *)
(* Each entry point is an async generator (event_generator) that the       *)
(* streaming response iterates.  An action of the model is one block of    *)
(* the generator's code, ending at a yield.  Statement execution           *)
(* (client.run) is synchronous, so the generator is suspended only at its  *)
(* yields; the consumer can stop iterating only there.                     *)
(*                                                                         *)
(* What the target system and the configuration store answer is an input:  *)
(* a statement either succeeds or raises.  Every raise is recorded in      *)
(* fault_log and the number of raises in a run is bounded by MaxFaults.    *)
(***************************************************************************)
EXTENDS Integers, Sequences, FiniteSets, TLC

\* ---------------------------------------------------------------- bounds
MaxUnits == 2      \* number of unit ids in a request
MaxFaults == 2     \* number of raising statements in a run
MaxRuns == 2       \* number of deployment requests served at the same time
MaxConnections == 2   \* number of connections the process creates
MaxStatements == 2    \* number of statements a run executes
MaxColumns == 2       \* columns of a blueprint
MaxKeys == 2          \* bindings of a node of a blueprint
MaxSecondary == 2     \* secondary nodes of a blueprint
MaxSecondaryKeys == 1 \* bindings of a secondary node
MaxCompilations == 2  \* SQLRenderer objects built for one blueprint
MaxRoles == 2         \* roles handed to _grant_access_to_object

\* ------------------------------------------- configuration store contents
\* Two blueprints: "a" has one secondary node (two node tables, one edge
\* table), "b" has none (one node table, no edge table).
BlueprintIds == {"a", "b"}

primary_node(bp) == IF bp = "a" THEN "P" ELSE "Q"

secondary_nodes(bp) == IF bp = "a" THEN <<"S">> ELSE <<>>

\* Dimension d1 maps columns of blueprints a and b and belongs to a group
\* (domain/process tags, access roles); fact f1 reads blueprint a and has no
\* group; nb is a dimension whose blueprint reference matches no blueprint;
\* zz is an id that is not in the configuration.
model_type(id) == IF id = "f1" THEN "fact" ELSE "dimension"

InConfiguration(id) == id \in {"d1", "f1", "nb", "a", "b"}

\* blueprints_to_deploy of utilities.py: the blueprints of the configuration
\* whose "<source>.<id>" key the model references.
blueprints_to_deploy(id) ==
    IF id = "d1" THEN <<"a", "b">> ELSE IF id = "f1" THEN <<"a">> ELSE <<>>

\* binding_object of a blueprint: the physical table name.
binding_object(bp) == IF bp = "a" THEN "A_TABLE" ELSE "B_TABLE"

\* source.attribute_table / attributes.attribute_table of a model as the
\* configuration holds it: name is a blueprint id, database and schema are
\* not set.
attribute_table(id) ==
    [name |-> IF id = "nb" THEN "none" ELSE "a", database |-> "null",
     schema |-> "null"]

\* _deploy_single_fact_streaming, validation step: the attribute_table of
\* fact_config gets the binding_object as name and the blueprints' target as
\* database and schema where none is set; a dimension's attribute_table is
\* read into locals and left alone.
Resolved(id, attr_table) ==
    IF model_type(id) = "fact"
    THEN [name |-> IF attr_table.name \in {"a", "b"}
                   THEN binding_object(attr_table.name) ELSE attr_table.name,
          database |-> IF attr_table.database = "null" THEN "target"
                       ELSE attr_table.database,
          schema |-> IF attr_table.schema = "null" THEN "target"
                     ELSE attr_table.schema]
    ELSE attr_table

\* _get_model_governance_tags: domain/process and roles of the model's group.
HasTags(id) == id = "d1"

HasRoles(id) == id = "d1"

\* The ids a request of each entry point may name.
RequestIds(e) ==
    IF e = "blueprints_follow" THEN {"a", "b", "zz"}
    ELSE {"d1", "f1", "nb", "zz"}

EntryPoints ==
    {"blueprints_follow", "dimensional_models_follow", "dimensional_models_staged"}

\* ------------------------------------------------------------------ state
VARIABLES
    entry,                \* deployment_type of the entry point that runs
    run_full_refresh,     \* request.run_full_refresh
    total_count,          \* len of the requested id list(s)
    model_ids,            \* the requested ids read so far, in request order
    current,              \* number of units the loop has started
    pc,                   \* position of event_generator
    ipc,                  \* position of the per-unit generator
    bi,                   \* index into blueprints_to_deploy in a stage loop
    successful,           \* list of ids deployed successfully
    failed,               \* list of ids that failed
    error_message,        \* "none" or "set": the run-level exception text
    final_summary,        \* "none" or "set"
    deployment_events,    \* event types handed to send_event, in order
    unit_log,             \* events the current unit's generator has yielded
    deployment_successful,
    stage_complete,       \* <stage>_complete of the stage loop that runs
    steps_completed,      \* steps_completed of the staged deployment
    executed,             \* statements run for the current unit, in order
    store,                \* configuration store: id -> deployed status
    attributes,           \* in memory: id -> attribute_table of the model's config
    stored_attributes,    \* configuration store: id -> attribute_table
    status_writes,        \* update_dimension/update_fact calls that returned
    deployed_objects,     \* _deploy_single_blueprint_streaming: deployed_objects
    audit_log,            \* records handed to persist_deployment_log
    disconnected,         \* the consumer stopped iterating
    suspended,            \* the generator is suspended at a yield
    fault_log,            \* the statements that raised, in order
    unit_result,          \* per started unit: summary of its event stream
    connection_pool,      \* core/snowflake.py _connection_pool: 0 is None
    open_connections,     \* the connections created and not closed
    client_conn,          \* per run: SnowflakeClient._conn of its client, 0 is None
    run_pc,               \* per run: position around "with SnowflakeClient()"
    run_statements,       \* per run: number of statements it has executed
    blueprint,            \* the blueprint record of the configuration tables
    table,                \* SQLRenderer.table of the live renderer, <<>> if none
    target_database_override,  \* SQLRenderer.target_database_override
    compile_error,        \* the errors raised by the last SQLRenderer(...)
    compiled,             \* the object names derived by each deployment
    renderers,            \* number of SQLRenderer objects built so far
    sync_blueprint,       \* _deploy_single_blueprint: blueprint_id
    sync_full_refresh,    \* _deploy_single_blueprint: run_full_refresh
    sync_step,            \* the step execute_deployment is about to run
    sync_steps_completed, \* steps_completed of _deploy_single_blueprint
    sync_executed,        \* the statements execute_deployment has run
    sync_result,          \* the status of the returned dict, "none" before
    grant_object_type,    \* _grant_access_to_object: object_type
    grant_object_name,    \* _grant_access_to_object: object_name, "null" is None
    grant_roles,          \* _grant_access_to_object: roles
    grant_role,           \* index of the role the loop is at, 0 before the call
    grant_next,           \* index of the next statement for that role
    grant_executed,       \* the statements _grant_access_to_object has run
    persist_args,         \* persist_deployment_log: the call and its environment
    persist_pc,           \* position inside persist_deployment_log
    persist_json,         \* deployment_log_json, "none" before it is built
    persist_rows          \* the rows inserted into the deployment logs table

\* The state of one run of an event_generator.
runVars == <<entry, run_full_refresh, total_count, model_ids, current, pc, ipc, bi,
             successful, failed, error_message, final_summary, deployment_events,
             unit_log, deployment_successful, stage_complete, steps_completed,
             executed, store, attributes, stored_attributes, status_writes, deployed_objects, audit_log, disconnected, suspended, fault_log,
             unit_result>>

\* The module state of core/snowflake.py and the runs that share it.
poolVars == <<connection_pool, open_connections, client_conn, run_pc,
              run_statements>>

\* The state of the core modules that the model of one run leaves alone.
\* The state of core/sql_render.py: one blueprint and its renderers.
compilerVars == <<blueprint, table, target_database_override, compile_error,
                  compiled, renderers>>

\* The state of one call of _deploy_single_blueprint (blueprints.py).
syncVars == <<sync_blueprint, sync_full_refresh, sync_step, sync_steps_completed,
              sync_executed, sync_result>>

\* The state of one call of _grant_access_to_object (utilities.py).
grantVars == <<grant_object_type, grant_object_name, grant_roles, grant_role,
               grant_next, grant_executed>>

\* The state of one call of persist_deployment_log (deployment_logs.py).
persistVars == <<persist_args, persist_pc, persist_json, persist_rows>>

coreVars == <<poolVars, compilerVars, syncVars, grantVars, persistVars>>

\* What the actions of each of the other models leave alone.
otherThanPool == <<runVars, compilerVars, syncVars, grantVars, persistVars>>
otherThanCompiler == <<runVars, poolVars, syncVars, grantVars, persistVars>>
otherThanSync == <<runVars, poolVars, compilerVars, grantVars, persistVars>>
otherThanGrant == <<runVars, poolVars, compilerVars, syncVars, persistVars>>
otherThanPersist == <<runVars, poolVars, compilerVars, syncVars, grantVars>>

vars == <<runVars, coreVars>>

\* ----------------------------------------------- blueprint records
\* Strings that the code transforms are sequences of characters.
Unbound == <<>>

ObjectStrings == {<<"o", "r", "d">>, <<"O", "r", " ", "d">>}
NodeStrings == {<<"c", "u">>, <<"C", " ", "u">>}

BindingValues == {Unbound, <<"X">>}

\* columns[]: name and binding; the names are distinct.
ColumnLists ==
    UNION {[1..n -> BindingValues] : n \in 0..MaxColumns}

\* bindings[] of a node: the configuration tables hold any list, the empty
\* one included.
KeyLists ==
    UNION {[1..n -> BindingValues] : n \in 0..MaxKeys}

ColumnNames == <<"c1", "c2", "c3">>
KeyNames == <<"k1", "k2", "k3">>

Columns(bs) == [i \in 1..Len(bs) |-> [name |-> ColumnNames[i], binding |-> bs[i]]]
Keys(bs) == [i \in 1..Len(bs) |-> [name |-> KeyNames[i], binding |-> bs[i]]]

\* secondary_nodes[]: node, bindings and the load flag, in declared order.
SecondaryNames == <<<<"s", "i">>, <<"e", " ", "o">>, <<"p", "r">>>>

SecondaryNodes ==
    {[bindings |-> Keys(sk), load |-> ld] :
        sk \in UNION {[1..n -> BindingValues] : n \in 0..MaxSecondaryKeys},
        ld \in BOOLEAN}

SecondaryLists ==
    UNION {{[i \in 1..n |-> [node |-> SecondaryNames[i],
                              bindings |-> f[i].bindings, load |-> f[i].load]] :
                f \in [1..n -> SecondaryNodes]} : n \in 0..MaxSecondary}

Blueprints ==
    {[binding_db |-> db, binding_schema |-> sc, binding_object |-> obj,
      name |-> <<"O", "r", "d", "e", "r">>, group_id |-> <<"e", "r", "p">>,
      columns |-> Columns(cs),
      primary_node |-> [node |-> pn, bindings |-> Keys(pk)],
      secondary_nodes |-> sn] :
        db \in BindingValues, sc \in BindingValues,
        obj \in ObjectStrings \cup {Unbound}, cs \in ColumnLists,
        pn \in NodeStrings, pk \in KeyLists,
        sn \in SecondaryLists}

NoPersist ==
    /\ persist_args = [deployment_type |-> "blueprints_follow", status |-> "success",
                       configured |-> TRUE, payload |-> "plain", insert |-> "ok"]
    /\ persist_pc = "idle"
    /\ persist_json = "none"
    /\ persist_rows = <<>>

NoGrant ==
    /\ grant_object_type = "TABLE"
    /\ grant_object_name = "null"
    /\ grant_roles = <<>>
    /\ grant_role = 0
    /\ grant_next = 1
    /\ grant_executed = <<>>

NoSync ==
    /\ sync_blueprint = "a"
    /\ sync_full_refresh = FALSE
    /\ sync_step = "idle"
    /\ sync_steps_completed = <<>>
    /\ sync_executed = <<>>
    /\ sync_result = "none"

NoCompile ==
    /\ blueprint = CHOOSE b \in Blueprints :
            /\ b.binding_db # Unbound /\ b.binding_schema # Unbound
            /\ b.columns = <<>> /\ b.secondary_nodes = <<>>
            /\ Len(b.primary_node.bindings) = 1
            /\ b.primary_node.bindings[1].binding # Unbound
            /\ b.primary_node.node = <<"c", "u">>
            /\ b.binding_object = <<"o", "r", "d">>
    /\ table = <<>>
    /\ target_database_override = "null"
    /\ compile_error = <<>>
    /\ compiled = <<>>
    /\ renderers = 0

\* ----------------------------------------------------------------- events
\* A log event of a per-unit generator.
Ev(level, step, status, bp) ==
    [level |-> level, step |-> step, status |-> status, bp |-> bp]

Logs(n) == [i \in 1..n |-> "log"]

IsComplete(e) == e.step = "complete" /\ e.status = "complete"

IsFailure(e) == e.status = "failed"

FailureCount(seq) == Cardinality({i \in 1..Len(seq) : IsFailure(seq[i])})

\* A raised statement: unit index (0 outside a unit), stage, blueprint, cause.
Fault(stage, bp, cause) ==
    [unit |-> current, stage |-> stage, bp |-> bp, cause |-> cause]

CanRaise == Len(fault_log) < MaxFaults

NoFlags == [s \in {} |-> "true"]

Flag(b) == IF b THEN "true" ELSE "false"

\* ------------------------------------------------------------------- Init
Init ==
    /\ entry \in EntryPoints
    /\ run_full_refresh \in BOOLEAN
    /\ (entry = "dimensional_models_follow" => run_full_refresh = FALSE)
    /\ total_count \in 0..MaxUnits
    /\ model_ids = <<>>
    /\ current = 0
    /\ pc = "start"
    /\ ipc = "idle"
    /\ bi = 0
    /\ successful = <<>>
    /\ failed = <<>>
    /\ error_message = "none"
    /\ final_summary = "none"
    /\ deployment_events = <<>>
    /\ unit_log = <<>>
    /\ deployment_successful = FALSE
    /\ stage_complete = TRUE
    /\ steps_completed = NoFlags
    /\ executed = <<>>
    /\ store = [id \in {"d1", "f1", "nb"} |-> "unset"]
    /\ attributes = [id \in {"d1", "f1", "nb"} |-> attribute_table(id)]
    /\ stored_attributes = [id \in {"d1", "f1", "nb"} |-> attribute_table(id)]
    /\ status_writes = <<>>
    /\ deployed_objects = <<>>
    /\ audit_log = <<>>
    /\ disconnected = FALSE
    /\ suspended = FALSE
    /\ fault_log = <<>>
    /\ unit_result = <<>>
    /\ connection_pool = 0
    /\ open_connections = {}
    /\ client_conn = [r \in 1..MaxRuns |-> 0]
    /\ run_pc = [r \in 1..MaxRuns |-> "idle"]
    /\ run_statements = [r \in 1..MaxRuns |-> 0]
    /\ NoCompile
    /\ NoSync
    /\ NoGrant
    /\ NoPersist


\* --------------------------------------------------------------- helpers
unitVars == <<ipc, bi, unit_log, deployment_successful, stage_complete,
              steps_completed, executed>>

listVars == <<successful, failed>>

requestVars == <<entry, run_full_refresh, total_count>>

\* send_event of the three event_generators: append the event type.
send_event(evs) == deployment_events' = deployment_events \o evs

\* An except clause that is not followed by the close event.
RunLevelExceptWithoutClose ==
    /\ error_message' = "set"
    /\ send_event(<<"error">>)
    /\ pc' = "persist"
    /\ suspended' = TRUE

\* The "except Exception as e" clause of event_generator: the error event.
RunLevelExcept ==
    /\ error_message' = "set"
    /\ send_event(<<"error">>)
    /\ pc' = "finally"
    /\ suspended' = TRUE

\* The loop body's "yield send_event('log', log_event)" for the events evs of
\* the per-unit generator, and the tracking of its final complete event.
Forward(evs) ==
    /\ unit_log' = unit_log \o evs
    /\ send_event(Logs(Len(evs)))
    /\ deployment_successful' =
          (deployment_successful \/ \E i \in 1..Len(evs) : IsComplete(evs[i]))
    /\ suspended' = (evs # <<>>)

Raise(stage, bp, cause) ==
    /\ CanRaise
    /\ fault_log' = Append(fault_log, Fault(stage, bp, cause))

\* n statements of one kind that all succeeded.
Ran(stage, bp, kinds) ==
    [i \in 1..Len(kinds) |-> [stage |-> stage, bp |-> bp, kind |-> kinds[i], ok |-> TRUE]]

\* The statements kinds[1..k-1] succeeded and kinds[k] raised.
RanUntil(stage, bp, kinds, k) ==
    [i \in 1..k |-> [stage |-> stage, bp |-> bp, kind |-> kinds[i], ok |-> (i < k)]]

\* The summary of the unit that ends, kept after its log is dropped.
UnitSummary(started) ==
    [id |-> model_ids[current],
     started |-> started,
     failure_events |-> FailureCount(unit_log),
     complete |-> deployment_successful,
     flags |-> steps_completed,
     stages |-> {unit_log[i].step : i \in 1..Len(unit_log)},
     statements |-> Len(executed)]

\* The status computed from the two counts alone.
AggregateStatusIgnoringError(success_count, failure_count, err) ==
    IF failure_count > 0
    THEN (IF success_count = 0 THEN "failed" ELSE "partial")
    ELSE "success"

\* The status computation of the finally clause.
AggregateStatus(success_count, failure_count, err) ==
    IF err \/ failure_count > 0
    THEN (IF success_count = 0 THEN "failed" ELSE "partial")
    ELSE "success"

\* -------------------------------------------------- event_generator (run)
\* Load the configuration and yield the first log event.
Start ==
    /\ pc = "start"
    /\ \/ /\ send_event(<<"log">>)
          /\ pc' = "connect"
          /\ suspended' = TRUE
          /\ UNCHANGED <<error_message, fault_log>>
       \/ \* get_all() raises, or model_database/model_schema is not set
          /\ entry # "blueprints_follow"
          /\ \E cause \in {"store", "config"} : Raise("load_config", "-", cause)
          /\ RunLevelExcept
    /\ UNCHANGED <<requestVars, coreVars, model_ids, current, unitVars, listVars,
                   final_summary, store, attributes, stored_attributes, status_writes, deployed_objects, audit_log, disconnected, unit_result>>

\* with SnowflakeClient() as shared_client
Connect ==
    /\ pc = "connect"
    /\ \/ /\ send_event(<<"log">>)
          /\ pc' = "next_unit"
          /\ suspended' = TRUE
          /\ UNCHANGED <<error_message, fault_log>>
       \/ /\ Raise("connect", "-", "connect")
          /\ RunLevelExcept
    /\ UNCHANGED <<requestVars, coreVars, model_ids, current, unitVars, listVars,
                   final_summary, store, attributes, stored_attributes, status_writes, deployed_objects, audit_log, disconnected, unit_result>>

\* The ids of a request are read in order; dimensional_models_follow reads
\* request.dimensions before request.facts.
MayFollow(id) ==
    entry = "dimensional_models_follow" /\ model_ids # <<>>
        /\ model_type(model_ids[Len(model_ids)]) = "fact"
    => model_type(id) = "fact"

\* A lookup that finds nothing and skips the unit without counting it.
UnitNotFoundUncounted ==
    /\ pc = "next_unit"
    /\ current < total_count
    /\ entry # "blueprints_follow"
    /\ \E id \in RequestIds(entry) :
          /\ MayFollow(id)
          /\ ~InConfiguration(id)
          /\ model_ids' = Append(model_ids, id)
          /\ UNCHANGED failed
          /\ unit_result' = Append(unit_result,
                [id |-> id, started |-> FALSE, failure_events |-> 0,
                 complete |-> FALSE, flags |-> NoFlags, stages |-> {},
                 statements |-> 0])
    /\ current' = current + 1
    /\ send_event(<<"log">>)
    /\ suspended' = TRUE
    /\ UNCHANGED <<requestVars, coreVars, pc, unitVars, successful, error_message,
                   final_summary, store, attributes, stored_attributes, status_writes, deployed_objects, audit_log, disconnected, fault_log>>

\* The configuration lookup of the loop body finds nothing.
UnitNotFound ==
    /\ pc = "next_unit"
    /\ current < total_count
    /\ entry # "blueprints_follow"
    /\ \E id \in RequestIds(entry) :
          /\ MayFollow(id)
          /\ ~InConfiguration(id)
          /\ model_ids' = Append(model_ids, id)
          /\ failed' = Append(failed, id)
          /\ unit_result' = Append(unit_result,
                [id |-> id, started |-> FALSE, failure_events |-> 0,
                 complete |-> FALSE, flags |-> NoFlags, stages |-> {},
                 statements |-> 0])
    /\ current' = current + 1
    /\ send_event(<<"log">>)
    /\ suspended' = TRUE
    /\ UNCHANGED <<requestVars, coreVars, pc, unitVars, successful, error_message,
                   final_summary, store, attributes, stored_attributes, status_writes, deployed_objects, audit_log, disconnected, fault_log>>

\* deploy_models_staged: the model references no blueprint of the
\* configuration; the ValueError is raised outside the per-model try.
UnitWithoutBlueprints ==
    /\ pc = "next_unit"
    /\ current < total_count
    /\ entry = "dimensional_models_staged"
    /\ \E id \in RequestIds(entry) :
          /\ InConfiguration(id)
          /\ blueprints_to_deploy(id) = <<>>
          /\ model_ids' = Append(model_ids, id)
          /\ unit_result' = Append(unit_result,
                [id |-> id, started |-> FALSE, failure_events |-> 0,
                 complete |-> FALSE, flags |-> NoFlags, stages |-> {},
                 statements |-> 0])
    /\ current' = current + 1
    /\ RunLevelExcept
    /\ UNCHANGED <<requestVars, coreVars, unitVars, listVars, final_summary, store, attributes, stored_attributes, status_writes, deployed_objects,
                   audit_log, disconnected, fault_log>>

FirstPosition ==
    IF entry = "blueprints_follow" THEN "initialization"
    ELSE IF entry = "dimensional_models_follow" THEN "view"
    ELSE "prelude"

\* The type of the <unit>_start and <unit>_complete events.
UnitEvent(id, start) ==
    IF entry = "blueprints_follow"
    THEN (IF start THEN "blueprint_start" ELSE "blueprint_complete")
    ELSE IF entry = "dimensional_models_staged"
    THEN (IF start THEN "model_start" ELSE "model_complete")
    ELSE IF model_type(id) = "fact"
    THEN (IF start THEN "fact_start" ELSE "fact_complete")
    ELSE (IF start THEN "dimension_start" ELSE "dimension_complete")

\* The <unit>_start event; the per-unit generator is created.
UnitStart ==
    /\ pc = "next_unit"
    /\ current < total_count
    /\ \E id \in RequestIds(entry) :
          /\ MayFollow(id)
          /\ entry # "blueprints_follow" => InConfiguration(id)
          /\ entry = "dimensional_models_staged" => blueprints_to_deploy(id) # <<>>
          /\ model_ids' = Append(model_ids, id)
    /\ current' = current + 1
    /\ send_event(<<UnitEvent(model_ids'[current'], TRUE)>>)
    /\ pc' = "unit"
    /\ ipc' = FirstPosition
    /\ bi' = 1
    /\ unit_log' = <<>>
    /\ deployment_successful' = FALSE
    /\ stage_complete' = TRUE
    /\ steps_completed' = NoFlags
    /\ executed' = <<>>
    /\ deployed_objects' = <<>>
    /\ suspended' = TRUE
    /\ UNCHANGED <<requestVars, coreVars, listVars, error_message, final_summary, store, attributes, stored_attributes, status_writes,
                   audit_log, disconnected, fault_log, unit_result>>


\* The record update_dimension/update_fact is handed: the deployed view name
\* with deployment_error None, or deployed None with the error text.
StatusWrite(id, ok) ==
    [id |-> id,
     deployed |-> IF ok THEN "view" ELSE "null",
     deployment_error |-> IF ok THEN "null" ELSE "set"]

\* update_dimension/update_fact in the except clause of the loop body of
\* dimensional_models_follow: write the failed status, or raise.  The other
\* two entry points record nothing there.
RecordFailure(id) ==
    IF entry = "dimensional_models_follow"
    THEN \/ /\ store' = [store EXCEPT ![id] = "error"]
            /\ stored_attributes' = [stored_attributes EXCEPT ![id] = attributes[id]]
            /\ status_writes' = Append(status_writes, StatusWrite(id, FALSE))
            /\ UNCHANGED deployed_objects
            /\ UNCHANGED <<attributes, fault_log>>
            /\ pc' = "next_unit"
         \/ /\ Raise("record_status", "-", "store")
            /\ UNCHANGED <<store, attributes, stored_attributes, status_writes, deployed_objects>>
            /\ pc' = "finally"
    ELSE /\ UNCHANGED <<store, attributes, stored_attributes, status_writes, deployed_objects, fault_log>>
         /\ pc' = "next_unit"

\* The per-unit generator is exhausted: the code after the async for loop.
\* Without a complete event the unit is recorded as failed; in
\* dimensional_models_follow the status update of that branch is inside the
\* try block, so its exception reaches the loop body's except clause.
UnitEnd ==
    /\ pc = "unit_done"
    /\ IF deployment_successful
       THEN /\ successful' = Append(successful, model_ids[current])
            /\ unit_result' = Append(unit_result, UnitSummary(TRUE))
            /\ send_event(<<UnitEvent(model_ids[current], FALSE)>>)
            /\ pc' = "next_unit"
            /\ suspended' = TRUE
            /\ UNCHANGED <<failed, store, attributes, stored_attributes, status_writes, deployed_objects, fault_log>>
       ELSE /\ failed' = Append(failed, model_ids[current])
            /\ UNCHANGED successful
            /\ IF entry = "dimensional_models_follow"
               THEN \/ /\ store' = [store EXCEPT ![model_ids[current]] = "error"]
                       /\ stored_attributes' =
                             [stored_attributes EXCEPT ![model_ids[current]] =
                                    attributes[model_ids[current]]]
                       /\ status_writes' =
                             Append(status_writes, StatusWrite(model_ids[current], FALSE))
                       /\ UNCHANGED deployed_objects
                       /\ UNCHANGED attributes
                       /\ unit_result' = Append(unit_result, UnitSummary(TRUE))
                       /\ pc' = "next_unit"
                       /\ UNCHANGED fault_log
                    \/ /\ Raise("record_status", "-", "store")
                       /\ pc' = "unit_exc"
                       /\ UNCHANGED <<store, attributes, stored_attributes, status_writes, deployed_objects, unit_result>>
               ELSE /\ unit_result' = Append(unit_result, UnitSummary(TRUE))
                    /\ pc' = "next_unit"
                    /\ UNCHANGED <<store, attributes, stored_attributes, status_writes, deployed_objects, fault_log>>
            /\ IF entry = "dimensional_models_staged"
               THEN send_event(<<"model_complete">>) /\ suspended' = TRUE
               ELSE UNCHANGED deployment_events /\ suspended' = FALSE
    /\ ipc' = "idle"
    /\ UNCHANGED <<requestVars, coreVars, model_ids, current, bi, unit_log,
                   deployment_successful, stage_complete, steps_completed,
                   executed, error_message, final_summary, audit_log,
                   disconnected>>

\* The per-unit generator raised: the loop body's "except Exception as e".
UnitExcept ==
    /\ pc = "unit_exc"
    /\ unit_result' = Append(unit_result, UnitSummary(TRUE))
    /\ failed' = Append(failed, model_ids[current])
    /\ RecordFailure(model_ids[current])
    /\ IF pc' = "finally"
       THEN /\ error_message' = "set"
            /\ send_event(<<"error">>)
       ELSE /\ send_event(<<UnitEvent(model_ids[current], FALSE)>>)
            /\ UNCHANGED error_message
    /\ suspended' = TRUE
    /\ ipc' = "idle"
    /\ UNCHANGED <<requestVars, coreVars, model_ids, current, bi, unit_log,
                   deployment_successful, stage_complete, steps_completed,
                   executed, successful, final_summary, audit_log, disconnected>>

\* After the loop: the final summary and the complete event.
Summary ==
    /\ pc = "next_unit"
    /\ current = total_count
    /\ final_summary' = "set"
    /\ send_event(<<"complete">>)
    /\ pc' = "finally"
    /\ suspended' = TRUE
    /\ UNCHANGED <<requestVars, coreVars, model_ids, current, unitVars, listVars,
                   error_message, store, attributes, stored_attributes, status_writes, deployed_objects, audit_log, disconnected, fault_log,
                   unit_result>>

\* finally: the close event.
Close ==
    /\ pc = "finally"
    /\ send_event(<<"close">>)
    /\ pc' = "persist"
    /\ suspended' = TRUE
    /\ UNCHANGED <<requestVars, coreVars, model_ids, current, unitVars, listVars,
                   error_message, final_summary, store, attributes, stored_attributes, status_writes, deployed_objects, audit_log, disconnected,
                   fault_log, unit_result>>

\* Persistence that is skipped when the run-level exception was raised.
PersistUnlessError ==
    /\ pc = "persist"
    /\ audit_log' = IF error_message # "none" THEN audit_log
                    ELSE Append(audit_log,
          [deployment_type |-> entry,
           status |-> AggregateStatus(Len(successful), Len(failed),
                                      error_message # "none"),
           success_count |-> Len(successful),
           error_count |-> IF Len(failed) > 0 THEN Len(failed)
                           ELSE IF error_message # "none" THEN 1 ELSE 0,
           total_count |-> total_count,
           events |-> deployment_events])
    /\ pc' = "done"
    /\ suspended' = FALSE
    /\ UNCHANGED <<requestVars, coreVars, model_ids, current, unitVars, listVars,
                   error_message, final_summary, deployment_events, store, attributes, stored_attributes, status_writes, deployed_objects,
                   disconnected, fault_log, unit_result>>

\* finally, after the close event: the status and persist_deployment_log.
Persist ==
    /\ pc = "persist"
    /\ audit_log' = Append(audit_log,
          [deployment_type |-> entry,
           status |-> AggregateStatus(Len(successful), Len(failed),
                                      error_message # "none"),
           success_count |-> Len(successful),
           error_count |-> IF Len(failed) > 0 THEN Len(failed)
                           ELSE IF error_message # "none" THEN 1 ELSE 0,
           total_count |-> total_count,
           events |-> deployment_events])
    /\ pc' = "done"
    /\ suspended' = FALSE
    /\ UNCHANGED <<requestVars, coreVars, model_ids, current, unitVars, listVars,
                   error_message, final_summary, deployment_events, store, attributes, stored_attributes, status_writes, deployed_objects,
                   disconnected, fault_log, unit_result>>

\* The consumer stops iterating while the generator is suspended at a yield.
\* The generator is closed: GeneratorExit is raised at the yield, no
\* "except Exception" clause catches it, the finally clause runs, and its
\* "yield send_event('close', ...)" ends the generator with a RuntimeError
\* before persist_deployment_log is reached.
Disconnect ==
    /\ suspended
    /\ pc \notin {"done", "aborted"}
    /\ disconnected' = TRUE
    /\ IF pc = "persist"
       THEN UNCHANGED deployment_events
       ELSE send_event(<<"close">>)
    /\ pc' = "aborted"
    /\ suspended' = FALSE
    /\ UNCHANGED <<requestVars, coreVars, model_ids, current, unitVars, listVars,
                   error_message, final_summary, store, attributes, stored_attributes, status_writes, deployed_objects, audit_log, fault_log,
                   unit_result>>


\* ------------------------- _deploy_single_blueprint_streaming (blueprints.py)
BlueprintSteps ==
    <<"initialization", "database_validation", "source_validation",
      "stage_view", "stream", "nodes", "edges", "attributes", "mti", "task",
      "full_refresh", "complete">>

StepAfter(step) ==
    LET i == CHOOSE j \in 1..Len(BlueprintSteps) : BlueprintSteps[j] = step
        next == BlueprintSteps[i + 1]
    IN  IF next = "full_refresh" /\ ~run_full_refresh THEN "complete" ELSE next

Repeat(x, n) == [i \in 1..n |-> x]

\* Edge statements counted per node instead of per secondary node.
StepStatementsEdgePerNode(step, bp) ==
    CASE step = "database_validation" -> <<"show_databases">>
      [] step = "stage_view" -> <<"view">>
      [] step = "stream" -> <<"stream">>
      [] step = "nodes" -> Repeat("node", 1 + Len(secondary_nodes(bp)))
      [] step = "edges" -> Repeat("edge", 1 + Len(secondary_nodes(bp)))
      [] step = "attributes" -> <<"attribute">>
      [] step = "mti" -> <<"mti">>
      [] step = "task" -> <<"task", "resume">>
      [] step = "full_refresh" ->
            Repeat("truncate", 2 + 2 * Len(secondary_nodes(bp))) \o <<"insert">>
      [] OTHER -> <<>>

\* The statements a step of the blueprint deployment runs, in order.
StepStatements(step, bp) ==
    CASE step = "database_validation" -> <<"show_databases">>
      [] step = "stage_view" -> <<"view">>
      [] step = "stream" -> <<"stream">>
      [] step = "nodes" -> Repeat("node", 1 + Len(secondary_nodes(bp)))
      [] step = "edges" -> Repeat("edge", Len(secondary_nodes(bp)))
      [] step = "attributes" -> <<"attribute">>
      [] step = "mti" -> <<"mti">>
      [] step = "task" -> <<"task", "resume">>
      [] step = "full_refresh" ->
            Repeat("truncate", 2 + 2 * Len(secondary_nodes(bp))) \o <<"insert">>
      [] OTHER -> <<>>

\* The TRUNCATE TABLE lines the parse of the full refresh text collects:
\* none when render returned its "-- Template rendering failed" comment.
Truncates(stmts, rendered) ==
    IF rendered THEN SelectSeq(stmts, LAMBDA k : k = "truncate") ELSE <<>>

\* The events a step yields when all its statements succeed.
StepEvents(step, bp) ==
    CASE step = "initialization" -> <<Ev("INFO", step, "starting", bp)>>
      [] step = "full_refresh" ->
            <<Ev("INFO", step, "starting", bp)>>
            \o Repeat(Ev("INFO", step, "complete", bp),
                      2 + 2 * Len(secondary_nodes(bp)))
            \o <<Ev("SUCCESS", step, "complete", bp)>>
            \o Repeat(Ev("INFO", step, "complete", bp), Len(secondary_nodes(bp)))
      [] OTHER -> <<Ev("INFO", step, "starting", bp),
                    Ev("SUCCESS", step, "complete", bp)>>

\* The events a step has yielded when its k-th statement raises.
StepEventsUntil(step, bp, k) ==
    <<Ev("INFO", step, "starting", bp)>>
    \o (IF step = "full_refresh"
        THEN Repeat(Ev("INFO", step, "complete", bp), k - 1)
        ELSE <<>>)
    \o (IF step = "task" /\ k = 1
        THEN <<Ev("ERROR", step, "failed", bp)>> ELSE <<>>)

\* The "except Exception as e" clause of the blueprint deployment: the
\* deployed status is written with the error (its failure is swallowed), the
\* failure event is yielded and the exception is raised again.
BlueprintFailed(bp) == <<Ev("ERROR", "deployment", "failed", bp)>>

\* An entry of deployed_objects: the kind of the object and its rank among
\* the objects of that kind (node 1 is the primary node's table).
Object(kind, n) == [kind |-> kind, n |-> n]

\* What a step appends to deployed_objects when it runs to its end.  The
\* task is appended after its resume; every secondary node of the
\* configuration has load set.
Tracked(step, bp) ==
    CASE step = "stage_view" -> <<Object("view", 1)>>
      [] step = "stream" -> <<Object("stream", 1)>>
      [] step = "nodes" ->
            [i \in 1..(1 + Len(secondary_nodes(bp))) |-> Object("node", i)]
      [] step = "edges" ->
            [i \in 1..Len(secondary_nodes(bp)) |-> Object("edge", i)]
      [] step = "attributes" -> <<Object("attribute", 1)>>
      [] step = "task" -> <<Object("task", 1)>>
      [] OTHER -> <<>>

\* What a step has appended when one of its statements raises: the primary
\* node is appended before the node statements run and the secondary nodes
\* after them; every edge is appended before the edge statements run; the
\* other steps append after their statements.
TrackedUntil(step, bp) ==
    CASE step = "nodes" -> <<Object("node", 1)>>
      [] step = "edges" -> Tracked(step, bp)
      [] OTHER -> <<>>

\* One step of the deployment of blueprint model_ids[current].
BlueprintStep ==
    /\ pc = "unit"
    /\ entry = "blueprints_follow"
    /\ ipc \in {BlueprintSteps[i] : i \in 1..(Len(BlueprintSteps) - 1)}
    /\ LET bp == model_ids[current]
           stmts == StepStatements(ipc, bp)
       IN  \/ \* SQLRenderer(blueprint_id) raises: blueprint not found
              /\ ipc = "database_validation"
              /\ ~InConfiguration(bp)
              /\ Forward(BlueprintFailed(bp))
              /\ pc' = "unit_exc"
              /\ UNCHANGED <<ipc, executed, fault_log, deployed_objects>>
           \/ \* every statement of the step succeeds
              /\ InConfiguration(bp)
              /\ Forward(StepEvents(ipc, bp))
              /\ executed' = executed \o Ran(ipc, bp, stmts)
              /\ deployed_objects' = deployed_objects \o Tracked(ipc, bp)
              /\ ipc' = StepAfter(ipc)
              /\ UNCHANGED <<pc, fault_log>>
           \/ \* the k-th statement of the step raises
              /\ InConfiguration(bp)
              /\ \E k \in 1..Len(stmts) :
                    /\ Raise(ipc, bp, "statement")
                    /\ Forward(StepEventsUntil(ipc, bp, k) \o BlueprintFailed(bp))
                    /\ executed' = executed \o RanUntil(ipc, bp, stmts, k)
              /\ deployed_objects' = deployed_objects \o TrackedUntil(ipc, bp)
              /\ pc' = "unit_exc"
              /\ UNCHANGED ipc
           \/ \* full refresh ran but a count query raises: a warning only
              /\ InConfiguration(bp)
              /\ ipc = "full_refresh"
              /\ Raise(ipc, bp, "count")
              /\ Forward(<<Ev("INFO", ipc, "starting", bp)>>
                         \o Repeat(Ev("INFO", ipc, "complete", bp), Len(stmts) - 1)
                         \o <<Ev("WARNING", ipc, "partial", bp)>>)
              /\ executed' = executed \o Ran(ipc, bp, stmts)
                                 \o RanUntil(ipc, bp, <<"count">>, 1)
              /\ ipc' = StepAfter(ipc)
              /\ UNCHANGED <<pc, deployed_objects>>
           \/ \* the parse of the rendered text finds no INSERT ALL block (and
              \* no TRUNCATE line either when rendering failed): a warning
              /\ InConfiguration(bp)
              /\ ipc = "full_refresh"
              /\ \E rendered \in BOOLEAN :
                    LET truncates == Truncates(stmts, rendered)
                    IN  /\ Forward(<<Ev("INFO", ipc, "starting", bp)>>
                                   \o Repeat(Ev("INFO", ipc, "complete", bp),
                                             Len(truncates))
                                   \o <<Ev("WARNING", ipc, "warning", bp),
                                        Ev("SUCCESS", ipc, "complete", bp)>>
                                   \o Repeat(Ev("INFO", ipc, "complete", bp),
                                             Len(secondary_nodes(bp))))
                        /\ executed' = executed \o Ran(ipc, bp, truncates)
              /\ ipc' = StepAfter(ipc)
              /\ UNCHANGED <<pc, fault_log, deployed_objects>>
    /\ UNCHANGED <<requestVars, coreVars, model_ids, current, bi, stage_complete,
                   steps_completed, listVars, error_message, final_summary,
                   store, attributes, stored_attributes, status_writes, audit_log, disconnected, unit_result>>

\* The deployed status is written and the complete event is yielded.
BlueprintComplete ==
    /\ pc = "unit"
    /\ entry = "blueprints_follow"
    /\ ipc = "complete"
    /\ Forward(<<Ev("SUCCESS", "complete", "complete", model_ids[current])>>)
    /\ pc' = "unit_done"
    /\ UNCHANGED <<requestVars, coreVars, model_ids, current, ipc, bi, stage_complete,
                   steps_completed, executed, listVars, error_message,
                   final_summary, store, attributes, stored_attributes, status_writes, deployed_objects, audit_log, disconnected, fault_log,
                   unit_result>>


\* ---------------------------------------------- governance (utilities.py)
RECURSIVE Concat(_)
Concat(ss) == IF ss = <<>> THEN <<>> ELSE Head(ss) \o Concat(Tail(ss))

\* The apply_tags and apply_grants events after an object of unit id was
\* created: the tag event only if _apply_tags_to_object returned True and
\* there is something to tag, the grant event whenever roles are declared.
GovEvents(id, bp, tag_ok) ==
    (IF HasTags(id) /\ tag_ok
     THEN <<Ev("SUCCESS", "apply_tags", "complete", bp)>> ELSE <<>>)
    \o (IF HasRoles(id)
        THEN <<Ev("SUCCESS", "apply_grants", "complete", bp)>> ELSE <<>>)

\* The tag-set statements _apply_tags_to_object builds for a model with tags:
\* domain and process (the fixture declares no PII flag).
TagKinds == <<"tag", "tag">>

\* _apply_tags_to_object and _grant_access_to_object: if the model has tags,
\* its tag-set statements are joined and run as one block inside one try, so
\* the block ends at the statement that raises (here the first); the
\* role/usage/privilege grants if it has roles.  A grant that raises is
\* swallowed statement by statement and changes no event.
GovStatements(id, stage, bp, tag_ok) ==
    (IF HasTags(id)
     THEN (IF tag_ok THEN Ran(stage, bp, TagKinds)
           ELSE RanUntil(stage, bp, TagKinds, 1))
     ELSE <<>>)
    \o (IF HasRoles(id)
        THEN <<[stage |-> stage, bp |-> bp, kind |-> "grant", ok |-> TRUE]>> ELSE <<>>)

\* The tag blocks with oks[i] = FALSE raised inside _apply_tags_to_object.
TagsRaise(id, stage, bp, oks) ==
    LET nf == Cardinality({i \in DOMAIN oks : ~oks[i]})
    IN  /\ nf > 0 => HasTags(id)
        /\ Len(fault_log) + nf <= MaxFaults
        /\ fault_log' = fault_log \o Repeat(Fault(stage, bp, "tag"), nf)

\* ------------------------------ _deploy_model_staged_streaming (utilities.py)
StagedVarsUnchanged ==
    UNCHANGED <<requestVars, coreVars, model_ids, current, listVars, error_message,
                final_summary, audit_log, disconnected, unit_result>>

Bps == blueprints_to_deploy(model_ids[current])

InStage(stage) ==
    /\ pc = "unit"
    /\ entry = "dimensional_models_staged"
    /\ ipc = stage

\* A blueprint's statements of a stage loop succeed.
BodyOk(stage, bp, kinds, gov, evs) ==
    /\ executed' = executed \o Ran(stage, bp, kinds) \o gov
    /\ Forward(evs)
    /\ bi' = bi + 1
    /\ UNCHANGED <<pc, ipc, stage_complete, steps_completed, store, attributes, stored_attributes, status_writes, deployed_objects>>

\* A stage loop that ends at the first blueprint whose statement raises.
BodyFailsEndsLoop(stage, bp, kinds, k, evs) ==
    /\ Raise(stage, bp, "statement")
    /\ executed' = executed \o RanUntil(stage, bp, kinds, k)
    /\ stage_complete' = FALSE
    /\ Forward(evs)
    /\ bi' = Len(blueprints_to_deploy(model_ids[current])) + 1
    /\ UNCHANGED <<pc, ipc, steps_completed, store, attributes, stored_attributes, status_writes, deployed_objects>>

\* The k-th statement of a blueprint in a stage loop raises: the loop's
\* "except Exception as e" clears the stage flag and yields evs.
BodyFails(stage, bp, kinds, k, evs) ==
    /\ Raise(stage, bp, "statement")
    /\ executed' = executed \o RanUntil(stage, bp, kinds, k)
    /\ stage_complete' = FALSE
    /\ Forward(evs)
    /\ bi' = bi + 1
    /\ UNCHANGED <<pc, ipc, steps_completed, store, attributes, stored_attributes, status_writes, deployed_objects>>

\* A stage end that announces the next stage before the events of this one.
StageEndsStartingFirst(stage, evs, next) ==
    /\ steps_completed' = (stage :> Flag(stage_complete)) @@ steps_completed
    /\ Forward(<<Ev("INFO", next, "starting", "-")>> \o evs)
    /\ ipc' = next
    /\ bi' = 1
    /\ stage_complete' = TRUE
    /\ UNCHANGED <<pc, executed, store, attributes, stored_attributes, status_writes, deployed_objects, fault_log>>

\* The end of a stage loop and the starting event of the next stage.
StageEnds(stage, evs, next) ==
    /\ steps_completed' = (stage :> Flag(stage_complete)) @@ steps_completed
    /\ Forward(evs \o <<Ev(IF next = "data_processing" THEN "SUCCESS" ELSE "INFO",
                            next, "starting", "-")>>)
    /\ ipc' = next
    /\ bi' = 1
    /\ stage_complete' = TRUE
    /\ UNCHANGED <<pc, executed, store, attributes, stored_attributes, status_writes, deployed_objects, fault_log>>

StageComplete(stage) ==
    IF stage_complete THEN <<Ev("SUCCESS", stage, "complete", "-")>> ELSE <<>>

\* Governance tags are read (load_group_by_id may raise: the generator's
\* outer except yields the error event and raises), tags are ensured, and
\* the staging stage starts.
StagedPrelude ==
    /\ InStage("prelude")
    /\ \/ /\ Forward(<<Ev("SUCCESS", "staging", "starting", "-")>>)
          /\ executed' = executed \o Ran("prelude", "-", <<"create_tags">>)
          /\ ipc' = "staging"
          /\ UNCHANGED <<pc, fault_log>>
       \/ /\ HasTags(model_ids[current])
          /\ Raise("prelude", "-", "store")
          /\ Forward(<<Ev("ERROR", "error", "failed", "-")>>)
          /\ pc' = "unit_exc"
          /\ UNCHANGED <<ipc, executed>>
    /\ UNCHANGED <<bi, stage_complete, steps_completed, store, attributes, stored_attributes, status_writes, deployed_objects>>
    /\ StagedVarsUnchanged

StagingBlueprint ==
    /\ InStage("staging")
    /\ bi <= Len(Bps)
    /\ LET bp == Bps[bi] IN
       \/ BodyOk("staging", bp, <<"view">>, <<>>, <<>>) /\ UNCHANGED fault_log
       \/ BodyFails("staging", bp, <<"view">>, 1,
                    <<Ev("ERROR", "staging", "failed", bp)>>)
    /\ StagedVarsUnchanged

StagingEnd ==
    /\ InStage("staging")
    /\ bi > Len(Bps)
    /\ StageEnds("staging", StageComplete("staging"), "data_processing")
    /\ StagedVarsUnchanged

\* Stream, task, task resume, then tags and grants on the task.
DataProcessingBlueprint ==
    /\ InStage("data_processing")
    /\ bi <= Len(Bps)
    /\ LET bp == Bps[bi]
           kinds == <<"stream", "task", "resume">>
       IN  \/ \E tag_ok \in BOOLEAN :
                 /\ TagsRaise(model_ids[current], "data_processing", bp, <<tag_ok>>)
                 /\ BodyOk("data_processing", bp, kinds,
                           GovStatements(model_ids[current], "data_processing",
                                         bp, tag_ok), <<>>)
           \/ \E k \in 1..Len(kinds) :
                 BodyFails("data_processing", bp, kinds, k,
                           <<Ev("ERROR", "data_processing", "failed", bp)>>)
    /\ StagedVarsUnchanged

DataProcessingEnd ==
    /\ InStage("data_processing")
    /\ bi > Len(Bps)
    /\ StageEnds("data_processing", StageComplete("data_processing"), "key_storage")
    /\ StagedVarsUnchanged

\* The node tables of a blueprint; per node name the tags, the grants and
\* the complete event; on an exception one failed event per node name.
KeyStorageBlueprint ==
    /\ InStage("key_storage")
    /\ bi <= Len(Bps)
    /\ LET bp == Bps[bi]
           id == model_ids[current]
           n == 1 + Len(secondary_nodes(bp))
           kinds == Repeat("node", n)
       IN  \/ \E oks \in [1..n -> BOOLEAN] :
                 /\ TagsRaise(id, "key_storage", bp, oks)
                 /\ BodyOk("key_storage", bp, kinds,
                      Concat([i \in 1..n |->
                                GovStatements(id, "key_storage", bp, oks[i])]),
                      Concat([i \in 1..n |->
                                GovEvents(id, bp, oks[i])
                                \o <<Ev("SUCCESS", "key_storage", "complete", bp)>>]))
           \/ \E k \in 1..n :
                 BodyFails("key_storage", bp, kinds, k,
                           Repeat(Ev("ERROR", "key_storage", "failed", bp), n))
    /\ StagedVarsUnchanged

KeyStorageEnd ==
    /\ InStage("key_storage")
    /\ bi > Len(Bps)
    /\ StageEnds("key_storage", <<>>, "build_relationships")
    /\ StagedVarsUnchanged

\* The edge tables of a blueprint, one per secondary node.
BuildRelationshipsBlueprint ==
    /\ InStage("build_relationships")
    /\ bi <= Len(Bps)
    /\ LET bp == Bps[bi]
           id == model_ids[current]
           n == Len(secondary_nodes(bp))
           kinds == Repeat("edge", n)
       IN  \/ \E oks \in [1..n -> BOOLEAN] :
                 /\ TagsRaise(id, "build_relationships", bp, oks)
                 /\ BodyOk("build_relationships", bp, kinds,
                      Concat([i \in 1..n |->
                                GovStatements(id, "build_relationships", bp, oks[i])]),
                      Concat([i \in 1..n |->
                                GovEvents(id, bp, oks[i])
                                \o <<Ev("SUCCESS", "build_relationships",
                                        "complete", bp)>>]))
           \/ \E k \in 1..n :
                 BodyFails("build_relationships", bp, kinds, k,
                           Repeat(Ev("ERROR", "build_relationships", "failed", bp), n))
    /\ StagedVarsUnchanged

BuildRelationshipsEnd ==
    /\ InStage("build_relationships")
    /\ bi > Len(Bps)
    /\ StageEnds("build_relationships", <<>>, "data_storage")
    /\ StagedVarsUnchanged

\* The attribute table and the MTI routine of a blueprint.
DataStorageBlueprint ==
    /\ InStage("data_storage")
    /\ bi <= Len(Bps)
    /\ LET bp == Bps[bi]
           id == model_ids[current]
           kinds == <<"attribute", "mti">>
       IN  \/ \E tag_ok \in BOOLEAN :
                 /\ TagsRaise(id, "data_storage", bp, <<tag_ok>>)
                 /\ BodyOk("data_storage", bp, kinds,
                           GovStatements(id, "data_storage", bp, tag_ok),
                           GovEvents(id, bp, tag_ok)
                           \o <<Ev("SUCCESS", "data_storage", "complete", bp)>>)
           \/ \E k \in 1..Len(kinds) :
                 BodyFails("data_storage", bp, kinds, k,
                           <<Ev("ERROR", "data_storage", "failed", bp)>>)
    /\ StagedVarsUnchanged

\* steps_completed["data_storage"], steps_completed["supporting_artefacts"]
\* = True, and the starting event of model_deployment.
DataStorageEnd ==
    /\ InStage("data_storage")
    /\ bi > Len(Bps)
    /\ steps_completed' = ("data_storage" :> Flag(stage_complete))
                          @@ ("supporting_artefacts" :> "true") @@ steps_completed
    /\ Forward(<<Ev("INFO", "model_deployment", "starting", "-")>>)
    /\ ipc' = "model_deployment"
    /\ bi' = 1
    /\ stage_complete' = TRUE
    /\ UNCHANGED <<pc, executed, store, attributes, stored_attributes, status_writes, deployed_objects, fault_log>>
    /\ StagedVarsUnchanged


\* ---- _deploy_single_dimension_streaming, _deploy_single_fact_streaming
\* ---- (dimensional_models.py)
ViewOutcomes == {"ok", "config", "check_raises", "missing", "view_raises", "update_raises"}

\* How far the generator gets: the number of its steps that complete.
Reached(outcome) ==
    CASE outcome = "config" -> 0
      [] outcome \in {"check_raises", "missing"} -> 1
      [] outcome = "view_raises" -> 2
      [] outcome = "update_raises" -> 3
      [] outcome = "ok" -> 4

\* The events the dimension or fact generator yields, its statements, and
\* whether it ends by raising (after its error event).
ViewStream(id, outcome) ==
    LET check == IF model_type(id) = "fact" THEN "edge_validation"
                 ELSE "source_validation"
        view == IF model_type(id) = "fact" THEN "fact_view" ELSE "dimension_view"
        r == Reached(outcome)
    IN  [events |->
            <<Ev("INFO", "validation", "starting", "-")>>
            \o (IF r >= 1 THEN <<Ev("SUCCESS", "validation", "complete", "-"),
                                 Ev("INFO", check, "starting", "-")>> ELSE <<>>)
            \o (IF r >= 2 THEN <<Ev("SUCCESS", check, "complete", "-"),
                                 Ev("INFO", view, "starting", "-"),
                                 Ev("INFO", view, "in_progress", "-")>> ELSE <<>>)
            \o (IF r >= 3 THEN <<Ev("SUCCESS", view, "complete", "-"),
                                 Ev("SUCCESS", "complete", "complete", "-")>> ELSE <<>>)
            \o (IF r < 4 THEN <<Ev("ERROR", "error", "failed", "-")>> ELSE <<>>),
         statements |->
            (IF r >= 1 THEN <<[stage |-> check, bp |-> "-", kind |-> "show_tables",
                               ok |-> outcome # "check_raises",
                               found |-> r >= 2]>> ELSE <<>>)
            \o (IF r >= 2 THEN <<[stage |-> view, bp |-> "-", kind |-> "create_view",
                                  ok |-> outcome # "view_raises"]>> ELSE <<>>)
            \o (IF r >= 3 THEN <<[stage |-> "status", bp |-> "-", kind |-> "update",
                                  ok |-> outcome # "update_raises"]>> ELSE <<>>),
         completed |-> r >= 3,
         raised |-> r < 4]

\* Which outcomes a unit can have: the configuration decides "config" (a
\* referenced blueprint that does not exist is a ValueError of validation).
ViewOutcomeOf(id, outcome) ==
    /\ outcome \in ViewOutcomes
    /\ (outcome = "config") = (blueprints_to_deploy(id) = <<>>)

\* Each outcome but "ok" and "config" is a statement that raises or a SHOW
\* TABLES that finds nothing.
ViewFaults(outcome) ==
    IF outcome \in {"ok", "config"} THEN <<>>
    ELSE <<Fault(IF outcome = "update_raises" THEN "status" ELSE "model_deployment",
                 "-",
                 CASE outcome = "missing" -> "missing"
                   [] outcome = "update_raises" -> "store"
                   [] OTHER -> "statement")>>

Raises(faults) ==
    /\ Len(fault_log) + Len(faults) <= MaxFaults
    /\ fault_log' = fault_log \o faults

\* dimensional_models_follow: the whole stream of one dimension or fact.
DeployView ==
    /\ pc = "unit"
    /\ entry = "dimensional_models_follow"
    /\ ipc = "view"
    /\ \E outcome \in ViewOutcomes :
          LET id == model_ids[current]
              r == ViewStream(id, outcome)
          IN  /\ ViewOutcomeOf(id, outcome)
              /\ Raises(ViewFaults(outcome))
              /\ Forward(r.events)
              /\ executed' = executed \o r.statements
              /\ attributes' = IF Reached(outcome) >= 1
                               THEN [attributes EXCEPT ![id] = Resolved(id, @)]
                               ELSE attributes
              /\ store' = IF outcome = "ok" THEN [store EXCEPT ![id] = "deployed"]
                          ELSE store
              /\ stored_attributes' =
                    IF outcome = "ok"
                    THEN [stored_attributes EXCEPT ![id] = attributes'[id]]
                    ELSE stored_attributes
              /\ status_writes' = IF outcome = "ok"
                                  THEN Append(status_writes, StatusWrite(id, TRUE))
                                  ELSE status_writes
              /\ UNCHANGED deployed_objects
              /\ pc' = IF r.raised THEN "unit_exc" ELSE "unit_done"
    /\ UNCHANGED <<ipc, bi, stage_complete, steps_completed>>
    /\ StagedVarsUnchanged

\* The events of the view generator as the staged deployment forwards them:
\* every forwarded event gets step "model_deployment".
Rewrite(evs) == [i \in 1..Len(evs) |-> [evs[i] EXCEPT !.step = "model_deployment"]]

\* Stage 7: the view generator is forwarded; when its complete event is seen
\* model_deployment_complete is set and the view is tagged and granted; an
\* exception of the generator yields one more failed event.
ModelDeployment ==
    /\ InStage("model_deployment")
    /\ \E outcome \in ViewOutcomes, tag_ok \in BOOLEAN :
          LET id == model_ids[current]
              r == ViewStream(id, outcome)
              n == Len(r.events)
              cut == IF r.raised THEN n - 1 ELSE n
              tag == IF tag_ok THEN <<>> ELSE <<Fault("model_deployment", "-", "tag")>>
          IN  /\ ViewOutcomeOf(id, outcome)
              /\ ~tag_ok => (r.completed /\ HasTags(id))
              /\ Raises(IF r.completed THEN tag \o ViewFaults(outcome)
                        ELSE ViewFaults(outcome) \o tag)
              /\ Forward(Rewrite(SubSeq(r.events, 1, cut))
                         \o (IF r.completed THEN GovEvents(id, "-", tag_ok) ELSE <<>>)
                         \o Rewrite(SubSeq(r.events, cut + 1, n))
                         \o (IF r.raised
                             THEN <<Ev("ERROR", "model_deployment", "failed", "-")>>
                             ELSE <<>>))
              /\ executed' = executed \o r.statements
                    \o (IF r.completed
                        THEN GovStatements(id, "model_deployment", "-", tag_ok)
                        ELSE <<>>)
              /\ attributes' = IF Reached(outcome) >= 1
                               THEN [attributes EXCEPT ![id] = Resolved(id, @)]
                               ELSE attributes
              /\ store' = IF outcome = "ok" THEN [store EXCEPT ![id] = "deployed"]
                          ELSE store
              /\ stored_attributes' =
                    IF outcome = "ok"
                    THEN [stored_attributes EXCEPT ![id] = attributes'[id]]
                    ELSE stored_attributes
              /\ status_writes' = IF outcome = "ok"
                                  THEN Append(status_writes, StatusWrite(id, TRUE))
                                  ELSE status_writes
              /\ UNCHANGED deployed_objects
              /\ steps_completed' =
                    ("model_deployment" :> Flag(r.completed)) @@ steps_completed
    /\ ipc' = "after_model"
    /\ UNCHANGED <<pc, bi, stage_complete>>
    /\ StagedVarsUnchanged

\* A seed load that starts whether or not full refresh was requested.
SeedLoadStartAlways ==
    /\ InStage("after_model")
    /\ Forward(<<Ev("INFO", "seed_load", "starting", "-")>>)
    /\ ipc' = "seed_load"
    /\ bi' = 1
    /\ stage_complete' = TRUE
    /\ UNCHANGED <<pc, steps_completed, executed, store, attributes, stored_attributes, status_writes, deployed_objects, fault_log>>
    /\ StagedVarsUnchanged

\* Stage 8 starts if full refresh was requested.
SeedLoadStart ==
    /\ InStage("after_model")
    /\ run_full_refresh
    /\ Forward(<<Ev("INFO", "seed_load", "starting", "-")>>)
    /\ ipc' = "seed_load"
    /\ bi' = 1
    /\ stage_complete' = TRUE
    /\ UNCHANGED <<pc, steps_completed, executed, store, attributes, stored_attributes, status_writes, deployed_objects, fault_log>>
    /\ StagedVarsUnchanged

SeedLoadBlueprint ==
    /\ InStage("seed_load")
    /\ bi <= Len(Bps)
    /\ LET bp == Bps[bi] IN
       \/ /\ BodyOk("seed_load", bp, <<"full_refresh">>, <<>>,
                    <<Ev("SUCCESS", "seed_load", "complete", bp)>>)
          /\ UNCHANGED fault_log
       \/ BodyFails("seed_load", bp, <<"full_refresh">>, 1,
                    <<Ev("ERROR", "seed_load", "failed", bp)>>)
    /\ StagedVarsUnchanged

\* A deployment that ends with the complete event only if no stage failed,
\* and raises otherwise.
StagedCompleteOnlyIfClean ==
    /\ pc = "unit"
    /\ entry = "dimensional_models_staged"
    /\ \/ ipc = "after_model" /\ ~run_full_refresh
       \/ ipc = "seed_load" /\ bi > Len(Bps)
    /\ steps_completed' =
          ("seed_load" :> (IF run_full_refresh THEN Flag(stage_complete) ELSE "null"))
          @@ steps_completed
    /\ IF \A st \in DOMAIN steps_completed' : steps_completed'[st] # "false"
       THEN /\ Forward(<<Ev("SUCCESS", "complete", "complete", "-")>>)
            /\ pc' = "unit_done"
       ELSE /\ Forward(<<Ev("ERROR", "error", "failed", "-")>>)
            /\ pc' = "unit_exc"
    /\ UNCHANGED <<ipc, bi, stage_complete, executed, store, attributes, stored_attributes, status_writes, deployed_objects, fault_log>>
    /\ StagedVarsUnchanged

\* steps_completed["seed_load"] and the final complete event.
StagedComplete ==
    /\ pc = "unit"
    /\ entry = "dimensional_models_staged"
    /\ \/ ipc = "after_model" /\ ~run_full_refresh
       \/ ipc = "seed_load" /\ bi > Len(Bps)
    /\ steps_completed' =
          ("seed_load" :> (IF run_full_refresh THEN Flag(stage_complete) ELSE "null"))
          @@ steps_completed
    /\ Forward(<<Ev("SUCCESS", "complete", "complete", "-")>>)
    /\ pc' = "unit_done"
    /\ UNCHANGED <<ipc, bi, stage_complete, executed, store, attributes, stored_attributes, status_writes, deployed_objects, fault_log>>
    /\ StagedVarsUnchanged

\* ------------------------------------------------------------------- Next
Next ==
    \/ Start \/ Connect \/ UnitNotFound \/ UnitWithoutBlueprints \/ UnitStart
    \/ UnitEnd \/ UnitExcept \/ Summary \/ Close \/ Persist \/ Disconnect
    \/ BlueprintStep \/ BlueprintComplete
    \/ DeployView
    \/ StagedPrelude
    \/ StagingBlueprint \/ StagingEnd
    \/ DataProcessingBlueprint \/ DataProcessingEnd
    \/ KeyStorageBlueprint \/ KeyStorageEnd
    \/ BuildRelationshipsBlueprint \/ BuildRelationshipsEnd
    \/ DataStorageBlueprint \/ DataStorageEnd
    \/ ModelDeployment
    \/ SeedLoadStart \/ SeedLoadBlueprint
    \/ StagedComplete

Spec == Init /\ [][Next]_vars


\* ================================================================ claims
Count(seq, x) == Cardinality({i \in 1..Len(seq) : seq[i] = x})

Ended == pc = "done"

\* The status the persisted record must carry for the lists of the run.
ExpectedStatus ==
    IF Len(failed) = 0 /\ error_message = "none" THEN "success"
    ELSE IF Len(successful) = 0 THEN "failed"
    ELSE "partial"

NodeStages == {"key_storage", "nodes"}

C2_FailureIsolation ==
    (/\ Ended
     /\ total_count >= 2
     /\ \A i \in 1..Len(model_ids) :
           InConfiguration(model_ids[i])
           /\ (entry # "blueprints_follow" => blueprints_to_deploy(model_ids[i]) # <<>>)
     /\ Len(fault_log) = 1
     /\ fault_log[1].stage \in NodeStages
     /\ fault_log[1].cause = "statement")
    => /\ Len(unit_result) = total_count
       /\ \A i \in 1..Len(unit_result) :
             IF i = fault_log[1].unit
             THEN unit_result[i].failure_events = 1
             ELSE unit_result[i].complete /\ unit_result[i].failure_events = 0
       /\ audit_log[1].status = "partial"

\* C3 (as stated): the run-level handler is reached only by an exception
\* raised outside the deployment of a unit (loading the configuration,
\* connecting) or by a configuration error (a model without blueprints);
\* an exception raised while a unit is deployed, also while its failed
\* status is recorded, leaves the run without the error event.
C3_ExceptionContained ==
    error_message = "set"
    => \/ \E i \in 1..Len(fault_log) : fault_log[i].unit = 0
       \/ /\ entry = "dimensional_models_staged"
          /\ \E i \in 1..Len(model_ids) :
                InConfiguration(model_ids[i]) /\ blueprints_to_deploy(model_ids[i]) = <<>>

\* C4 (as stated): the persisted status is "success" when there are zero
\* failures, "failed" when there are zero successes, "partial" otherwise.
C4_StatusFromCounts ==
    \A i \in 1..Len(audit_log) :
        audit_log[i].status =
            IF Len(failed) = 0 THEN "success"
            ELSE IF Len(successful) = 0 THEN "failed"
            ELSE "partial"

\* C4 (amended): the persisted status is one of success, partial, failed;
\* it is "success" when there are zero failures and no run-level error,
\* otherwise "failed" when there are zero successes, otherwise "partial";
\* and the status computation gives this for every combination of counts
\* and error flag.
C4_StatusAmended ==
    /\ \A i \in 1..Len(audit_log) :
          /\ audit_log[i].status \in {"success", "partial", "failed"}
          /\ audit_log[i].status = ExpectedStatus
          /\ audit_log[i].success_count = Len(successful)
    /\ \A sc \in 0..MaxUnits, fc \in 0..MaxUnits, err \in BOOLEAN :
          AggregateStatus(sc, fc, err) =
             IF fc = 0 /\ ~err THEN "success"
             ELSE IF sc = 0 THEN "failed" ELSE "partial"

C4_Witness ==
    /\ Ended
    /\ error_message = "set"
    /\ Len(failed) = 0
    /\ Len(successful) > 0
    /\ audit_log[1].status = "partial"

\* C5: the events handed to the stream contain at most one close event,
\* the close event is the last event, the audit record is persisted only
\* after it, and a run that has ended has exactly one, also when the run
\* ended with the error event.
C5_CloseThenPersist ==
    /\ Count(deployment_events, "close") <= 1
    /\ \A i \in 1..Len(deployment_events) :
          deployment_events[i] = "close" => i = Len(deployment_events)
    /\ audit_log # <<>> => /\ Count(deployment_events, "close") = 1
                           /\ Count(audit_log[1].events, "close") = 1
    /\ Ended => Count(deployment_events, "close") = 1

C5_Witness ==
    /\ Ended
    /\ Count(deployment_events, "error") = 1
    /\ deployment_events[Len(deployment_events)] = "close"
    /\ deployment_events[Len(deployment_events) - 1] = "error"
    /\ Len(audit_log) = 1


\* C6 (as stated): when the consumer stopped reading the stream, the run
\* has still processed every requested unit and has persisted the audit
\* record.
C6_DisconnectNotCancellation ==
    (disconnected /\ pc = "aborted")
    => /\ current = total_count
       /\ Len(audit_log) = 1

\* The stage loops of the staged deployment that iterate over blueprints.
LoopStages ==
    {"staging", "data_processing", "key_storage", "build_relationships",
     "data_storage", "seed_load"}

Staged == entry = "dimensional_models_staged"

\* Position of blueprint bp in the blueprints of the current model.
BpIndex(bp) == CHOOSE m \in 1..Len(Bps) : Bps[m] = bp

\* The stage loop runs at least one statement for blueprint bp.
HasStatements(stage, bp) ==
    stage = "build_relationships" => secondary_nodes(bp) # <<>>

\* C7: in the staged deployment, for every statement of a blueprint that
\* raised in one of the stages staging, data_processing, key_storage,
\* build_relationships, data_storage and seed_load: a failed event with
\* that stage and that blueprint has been yielded, the stage's complete flag
\* is false (the loop's flag while the stage runs, steps_completed after
\* it), and every later blueprint the loop has passed has had its
\* statements of that stage executed after the failure.
C7_StageFailureIsolated ==
    (Staged /\ pc \in {"unit", "unit_done"})
    => \A i \in 1..Len(executed) :
          LET x == executed[i] IN
          (x.stage \in LoopStages /\ ~x.ok /\ x.kind # "tag")
          => /\ \E j \in 1..Len(unit_log) :
                   unit_log[j] = Ev("ERROR", x.stage, "failed", x.bp)
             /\ IF x.stage \in DOMAIN steps_completed
                THEN steps_completed[x.stage] = "false"
                ELSE ipc = x.stage /\ ~stage_complete
             /\ \A m \in 1..Len(Bps) :
                   (/\ m > BpIndex(x.bp)
                    /\ HasStatements(x.stage, Bps[m])
                    /\ (x.stage \in DOMAIN steps_completed \/ m < bi))
                   => \E k \in (i + 1)..Len(executed) :
                         executed[k].stage = x.stage /\ executed[k].bp = Bps[m]

C7_Witness ==
    /\ Staged
    /\ pc = "unit"
    /\ "key_storage" \in DOMAIN steps_completed
    /\ steps_completed["key_storage"] = "false"
    /\ \E i, k \in 1..Len(executed) :
          /\ i < k
          /\ executed[i] = [stage |-> "key_storage", bp |-> "a", kind |-> "node",
                            ok |-> FALSE]
          /\ executed[k] = [stage |-> "key_storage", bp |-> "b", kind |-> "node",
                            ok |-> TRUE]

\* C8: a staged model deployment raises only from the code before the first
\* stage; every deployment that did not has events of staging,
\* data_processing, key_storage, build_relationships, data_storage and
\* model_deployment, whatever failed in them, and has yielded the complete
\* event.
C8_StagesAlwaysRun ==
    Staged
    => /\ pc = "unit_exc" => ipc = "prelude"
       /\ \A i \in 1..Len(unit_result) :
             (/\ unit_result[i].started
              /\ ~\E j \in 1..Len(fault_log) :
                     fault_log[j].unit = i /\ fault_log[j].stage = "prelude")
             => /\ unit_result[i].complete
                /\ {"staging", "data_processing", "key_storage",
                    "build_relationships", "data_storage", "model_deployment",
                    "complete"} \subseteq unit_result[i].stages

C8_Witness ==
    /\ Staged
    /\ \E i \in 1..Len(unit_result) :
          /\ unit_result[i].complete
          /\ unit_result[i].failure_events > 0
          /\ unit_result[i].flags["staging"] = "false"
          /\ unit_result[i].flags["data_storage"] = "false"
          /\ "model_deployment" \in unit_result[i].stages

\* The stage sequence of the staged deployment.
PipelineStages ==
    <<"staging", "data_processing", "key_storage", "build_relationships",
      "data_storage", "supporting_artefacts", "model_deployment", "seed_load",
      "complete">>

IsStageEvent(e) == \E r \in 1..Len(PipelineStages) : PipelineStages[r] = e.step

Rank(e) == CHOOSE r \in 1..Len(PipelineStages) : PipelineStages[r] = e.step

StageEventsOrdered ==
    \A i, j \in 1..Len(unit_log) :
        (i < j /\ IsStageEvent(unit_log[i]) /\ IsStageEvent(unit_log[j]))
        => Rank(unit_log[i]) <= Rank(unit_log[j])

HasEvent(stage) == \E i \in 1..Len(unit_log) : unit_log[i].step = stage

InFlagStage(x, stage) ==
    \/ x.stage = stage
    \/ /\ stage = "model_deployment"
       /\ x.stage \in {"source_validation", "edge_validation", "dimension_view",
                       "fact_view", "status"}

\* C10 (as stated): when the final complete event of a staged deployment is
\* yielded, every flag of steps_completed that is true belongs to a stage of
\* which no statement raised and for which no failed event was yielded.
C10_FlagsTrueOnlyIfClean ==
    (Staged /\ pc = "unit_done")
    => \A stage \in DOMAIN steps_completed :
          steps_completed[stage] = "true"
          => /\ ~\E i \in 1..Len(executed) :
                    /\ InFlagStage(executed[i], stage)
                    /\ ~executed[i].ok
                    /\ executed[i].kind # "tag"
             /\ ~\E j \in 1..Len(unit_log) :
                    unit_log[j].step = stage /\ IsFailure(unit_log[j])


\* A requested model whose blueprint reference cannot be resolved.
HasConfigError(id) ==
    InConfiguration(id) /\ id \notin BlueprintIds /\ blueprints_to_deploy(id) = <<>>

\* C11 (as stated): when a requested unit has a configuration error (its
\* blueprint reference cannot be resolved), no statement has been executed
\* for any unit of the run, wherever the faulty unit is in the request.
C11_ConfigErrorBeforeAnyStage ==
    (\E i \in 1..Len(model_ids) : HasConfigError(model_ids[i]))
    => \A j \in 1..Len(unit_result) : unit_result[j].statements = 0


\* The terminal events of the per-unit generators: the complete event, the
\* "error" event of the dimension, fact and staged generators and the
\* "deployment" failed event of the blueprint generator.
IsTerminal(e) ==
    \/ IsComplete(e)
    \/ e.status = "failed" /\ e.step \in {"error", "deployment"}

TerminalCount == Cardinality({i \in 1..Len(unit_log) : IsTerminal(unit_log[i])})

\* C12 (as stated): while a per-unit generator runs it has yielded no
\* terminal event; when it has ended (exhausted or raised) it has yielded
\* exactly one terminal event, complete or error but not both, and that event
\* is the last event of the unit.
C12_OneTerminalEvent ==
    /\ pc = "unit" => TerminalCount = 0
    /\ pc \in {"unit_done", "unit_exc"}
          => /\ TerminalCount = 1
             /\ IsTerminal(unit_log[Len(unit_log)])


SeedStatements == {i \in 1..Len(executed) : executed[i].stage = "seed_load"}

\* C13: in the staged deployment a seed_load statement is executed only if
\* full refresh was requested; the final complete event always carries
\* steps_completed.seed_load; when full refresh was not requested it is the
\* not-requested value (null); when it was requested it is true if the
\* refresh of every blueprint ran and succeeded, and false otherwise.
C13_SeedLoadTriState ==
    (Staged /\ pc \in {"unit", "unit_done"})
    => /\ ~run_full_refresh => SeedStatements = {}
       /\ pc = "unit_done" => "seed_load" \in DOMAIN steps_completed
       /\ "seed_load" \in DOMAIN steps_completed
          => IF ~run_full_refresh
             THEN steps_completed["seed_load"] = "null"
             ELSE /\ steps_completed["seed_load"] \in {"true", "false"}
                  /\ steps_completed["seed_load"] = "true"
                     <=> \A m \in 1..Len(Bps) :
                            \E i \in SeedStatements :
                               executed[i].bp = Bps[m] /\ executed[i].ok

C13_Witness ==
    /\ Staged
    /\ pc = "unit_done"
    /\ run_full_refresh
    /\ steps_completed["seed_load"] = "false"
    /\ \E i, k \in SeedStatements : executed[i].ok /\ ~executed[k].ok


\* C14 (as stated): in the staged deployment, for every tag-set statement
\* that raised: no stage flag is false unless a deployment statement of that
\* stage raised, the remaining tag-set statement of the same object has
\* still been executed, and the deployment goes on to its complete event.
C14_GovernanceBestEffort ==
    (Staged /\ pc \in {"unit", "unit_done"})
    => \A i \in 1..Len(executed) :
          (executed[i].kind = "tag" /\ ~executed[i].ok)
          => /\ \A stage \in LoopStages \cap DOMAIN steps_completed :
                   steps_completed[stage] = "false"
                   => \E j \in 1..Len(executed) :
                         /\ executed[j].stage = stage
                         /\ executed[j].kind # "tag"
                         /\ ~executed[j].ok
             /\ (i > 1 /\ executed[i - 1].kind # "tag")
                => /\ i < Len(executed)
                   /\ executed[i + 1].kind = "tag"
                   /\ executed[i + 1].stage = executed[i].stage
                   /\ executed[i + 1].bp = executed[i].bp
             /\ pc = "unit_done" => deployment_successful


\* C15 (as stated): for every task-creation statement of the current unit
\* that raised: a failed event for its step and blueprint has been yielded,
\* no later statement (the task resume included) has been executed for that
\* blueprint, and the unit does not end with the complete event.
C15_TaskFailureTerminal ==
    pc \in {"unit", "unit_done", "unit_exc"}
    => \A i \in 1..Len(executed) :
          (executed[i].kind = "task" /\ ~executed[i].ok)
          => /\ \E j \in 1..Len(unit_log) :
                   /\ IsFailure(unit_log[j])
                   /\ unit_log[j].step = executed[i].stage
                   /\ unit_log[j].bp = executed[i].bp
             /\ \A k \in (i + 1)..Len(executed) : executed[k].bp # executed[i].bp
             /\ ~deployment_successful
             /\ pc # "unit_done"


\* ------------------------------------------ core/snowflake.py: the pool
\* Several event_generators served by one process: each enters
\* "with SnowflakeClient() as shared_client", runs statements and leaves the
\* with block.  The run state of the sequencer model is not part of this.
Runs == 1..MaxRuns

NoRun ==
    /\ entry = "blueprints_follow"
    /\ run_full_refresh = FALSE
    /\ total_count = 0
    /\ model_ids = <<>>
    /\ current = 0
    /\ pc = "start"
    /\ ipc = "idle"
    /\ bi = 0
    /\ successful = <<>>
    /\ failed = <<>>
    /\ error_message = "none"
    /\ final_summary = "none"
    /\ deployment_events = <<>>
    /\ unit_log = <<>>
    /\ deployment_successful = FALSE
    /\ stage_complete = TRUE
    /\ steps_completed = NoFlags
    /\ executed = <<>>
    /\ store = [id \in {"d1", "f1", "nb"} |-> "unset"]
    /\ attributes = [id \in {"d1", "f1", "nb"} |-> attribute_table(id)]
    /\ stored_attributes = [id \in {"d1", "f1", "nb"} |-> attribute_table(id)]
    /\ status_writes = <<>>
    /\ deployed_objects = <<>>
    /\ audit_log = <<>>
    /\ disconnected = FALSE
    /\ suspended = FALSE
    /\ fault_log = <<>>
    /\ unit_result = <<>>

PoolInit ==
    /\ NoRun
    /\ connection_pool = 0
    /\ open_connections = {}
    /\ client_conn = [r \in Runs |-> 0]
    /\ run_pc = [r \in Runs |-> "idle"]
    /\ run_statements = [r \in Runs |-> 0]
    /\ NoCompile
    /\ NoSync
    /\ NoGrant
    /\ NoPersist

\* SnowflakeClient.__enter__ -> connect -> _get_pooled_connection: the
\* module's one connection is returned if its ping succeeds; if there is
\* none, or the ping raises, the old one is closed and a new one is created
\* and becomes the module's connection.
GetPooledConnection(r) ==
    /\ run_pc[r] = "idle"
    /\ \/ /\ connection_pool # 0
          /\ client_conn' = [client_conn EXCEPT ![r] = connection_pool]
          /\ UNCHANGED <<connection_pool, open_connections>>
       \/ /\ connection_pool < MaxConnections
          /\ connection_pool' = connection_pool + 1
          /\ open_connections' =
                (open_connections \ {connection_pool}) \cup {connection_pool + 1}
          /\ client_conn' = [client_conn EXCEPT ![r] = connection_pool + 1]
    /\ run_pc' = [run_pc EXCEPT ![r] = "entered"]
    /\ UNCHANGED <<run_statements, otherThanPool>>

\* SnowflakeClient.run inside the with block, on the client's connection.
ClientRun(r) ==
    /\ run_pc[r] = "entered"
    /\ run_statements[r] < MaxStatements
    /\ run_statements' = [run_statements EXCEPT ![r] = @ + 1]
    /\ UNCHANGED <<connection_pool, open_connections, client_conn, run_pc,
                   otherThanPool>>

\* SnowflakeClient.__exit__: a pooled connection is not closed.
ClientExit(r) ==
    /\ run_pc[r] = "entered"
    /\ run_pc' = [run_pc EXCEPT ![r] = "exited"]
    /\ UNCHANGED <<connection_pool, open_connections, client_conn,
                   run_statements, otherThanPool>>

PoolNext ==
    \/ \E r \in Runs : GetPooledConnection(r)
    \/ \E r \in Runs : ClientRun(r)
    \/ \E r \in Runs : ClientExit(r)

PoolSpec == PoolInit /\ [][PoolNext]_vars

\* C16 (as stated): two runs that are inside their with block at the same
\* time and have executed statements hold different connections, and a run
\* that has left its with block has released its connection.
C16_ConnectionPerRun ==
    /\ \A r1, r2 \in Runs :
          (/\ r1 # r2
           /\ run_pc[r1] = "entered" /\ run_pc[r2] = "entered"
           /\ run_statements[r1] > 0 /\ run_statements[r2] > 0)
          => client_conn[r1] # client_conn[r2]
    /\ \A r \in Runs :
          run_pc[r] = "exited" => client_conn[r] \notin open_connections


\* ---------------------------------------- core/sql_render.py: SQLRenderer
NoPool ==
    /\ connection_pool = 0
    /\ open_connections = {}
    /\ client_conn = [r \in Runs |-> 0]
    /\ run_pc = [r \in Runs |-> "idle"]
    /\ run_statements = [r \in Runs |-> 0]

CompileInit ==
    /\ NoRun
    /\ NoPool
    /\ blueprint \in Blueprints
    /\ table = <<>>
    /\ target_database_override = "null"
    /\ compile_error = <<>>
    /\ compiled = <<>>
    /\ renderers = 0
    /\ NoSync
    /\ NoGrant
    /\ NoPersist

\* str.upper() and upper_clean() on the characters the blueprints use.
UpperChar(c) ==
    CASE c = "o" -> "O" [] c = "r" -> "R" [] c = "d" -> "D" [] c = "c" -> "C"
      [] c = "u" -> "U" [] c = "s" -> "S" [] c = "i" -> "I" [] c = "e" -> "E"
      [] c = "p" -> "P" [] OTHER -> c

upper(s) == [i \in 1..Len(s) |-> UpperChar(s[i])]

upper_clean(s) ==
    upper([i \in 1..Len(s) |-> IF s[i] = " " THEN "_" ELSE s[i]])

\* [b.get("binding") for b in bindings if b.get("binding")]
RECURSIVE BindingValuesOf(_)
BindingValuesOf(bindings) ==
    IF bindings = <<>> THEN <<>>
    ELSE LET rest == BindingValuesOf(Tail(bindings))
         IN  IF Head(bindings).binding # Unbound
             THEN <<Head(bindings).binding>> \o rest
             ELSE rest

\* A scalar if there is exactly one value, the list otherwise; the scalar is
\* tagged to keep it apart from a list of one.
NodeName(bindings) ==
    LET values == BindingValuesOf(bindings)
    IN  IF Len(values) = 1 THEN <<"scalar", values[1]>> ELSE <<"list", values>>

_normalize_blueprint(bp) ==
    [name |-> IF bp.binding_object # Unbound THEN bp.binding_object ELSE bp.name,
     database |-> bp.binding_db,
     schema |-> bp.binding_schema,
     columns |-> bp.columns,
     primary_node |-> [node |-> bp.primary_node.node,
                       bindings |-> bp.primary_node.bindings,
                       name |-> NodeName(bp.primary_node.bindings)],
     secondary_nodes |->
        [i \in 1..Len(bp.secondary_nodes) |->
            [node |-> bp.secondary_nodes[i].node,
             bindings |-> bp.secondary_nodes[i].bindings,
             load |-> bp.secondary_nodes[i].load,
             name |-> NodeName(bp.secondary_nodes[i].bindings)]],
     source_name |-> bp.group_id]

\* The items of missing_bindings that one list of bindings contributes.
RECURSIVE MissingIn(_, _)
MissingIn(bindings, path) ==
    IF bindings = <<>> THEN <<>>
    ELSE (IF Head(bindings).binding = Unbound
          THEN <<path \o <<Head(bindings).name>>>>
          ELSE <<>>) \o MissingIn(Tail(bindings), path)

RECURSIVE MissingInNodes(_)
MissingInNodes(nodes) ==
    IF nodes = <<>> THEN <<>>
    ELSE MissingIn(Head(nodes).bindings, <<"secondary_node", Head(nodes).node>>)
         \o MissingInNodes(Tail(nodes))

\* The errors _validate_bindings raises for a table: none or one.
_validate_bindings(t) ==
    IF t.database = Unbound
    THEN <<[message |-> "missing binding_db", items |-> <<<<"binding_db">>>>]>>
    ELSE IF t.schema = Unbound
    THEN <<[message |-> "missing binding_schema",
            items |-> <<<<"binding_schema">>>>]>>
    ELSE LET missing_bindings ==
                MissingIn(t.columns, <<>>)
                \o MissingIn(t.primary_node.bindings, <<"primary_node">>)
                \o MissingInNodes(t.secondary_nodes)
         IN  IF missing_bindings # <<>>
             THEN <<[message |-> "has missing field bindings",
                     items |-> missing_bindings]>>
             ELSE <<>>

\* SQLRenderer(blueprint_id, target_database=database_name): the blueprint is
\* normalized and validated; a validation error leaves no renderer.
NewRenderer ==
    /\ table = <<>>
    /\ renderers < MaxCompilations
    /\ \E database_name \in {"null", "dev"} :
          LET t == _normalize_blueprint(blueprint)
          IN  /\ compile_error' = _validate_bindings(t)
              /\ table' = IF _validate_bindings(t) = <<>> THEN <<t>> ELSE <<>>
              /\ target_database_override' = database_name
    /\ renderers' = renderers + 1
    /\ UNCHANGED <<blueprint, compiled, otherThanCompiler>>

\* create_nodes / create_edges: the node names handed to the templates, one
\* rendered statement each.
create_nodes_loaded(t) ==
    LET loaded == SelectSeq(t.secondary_nodes, LAMBDA n : n.load)
    IN  <<upper_clean(t.primary_node.node)>>
        \o [i \in 1..Len(loaded) |-> upper_clean(loaded[i].node)]

create_nodes(t) ==
    <<upper_clean(t.primary_node.node)>>
    \o [i \in 1..Len(t.secondary_nodes) |-> upper_clean(t.secondary_nodes[i].node)]

create_edges(t) ==
    [i \in 1..Len(t.secondary_nodes) |->
        <<upper_clean(t.primary_node.node), upper_clean(t.secondary_nodes[i].node)>>]

\* The names _deploy_single_blueprint_streaming derives from the renderer.
ObjectNamesWithDatabase(t, database_name) ==
    [view |-> <<"VIEW_">> \o upper(t.name),
     stream |-> <<"STREAM_">> \o upper(t.name),
     task |-> <<"TASK_">> \o upper(t.name),
     nodes |-> [i \in 1..Len(create_nodes(t)) |->
                    <<database_name, ".", "NODE_">> \o create_nodes(t)[i]],
     edges |-> [i \in 1..Len(create_edges(t)) |->
                    <<database_name, ".", "EDGE_">> \o create_edges(t)[i][1]
                    \o <<"_">> \o create_edges(t)[i][2]],
     attribute_table |-> <<"ATTR_">> \o upper(t.primary_node.node) \o <<"_">>
                         \o upper(t.name) \o <<"_">> \o upper(t.source_name)]

ObjectNames(t, database_name) ==
    [view |-> <<"VIEW_">> \o upper(t.name),
     stream |-> <<"STREAM_">> \o upper(t.name),
     task |-> <<"TASK_">> \o upper(t.name),
     nodes |-> [i \in 1..Len(create_nodes(t)) |->
                    <<"NODE_">> \o create_nodes(t)[i]],
     edges |-> [i \in 1..Len(create_edges(t)) |->
                    <<"EDGE_">> \o create_edges(t)[i][1]
                    \o <<"_">> \o create_edges(t)[i][2]],
     attribute_table |-> <<"ATTR_">> \o upper(t.primary_node.node) \o <<"_">>
                         \o upper(t.name) \o <<"_">> \o upper(t.source_name)]

\* The body of "with SQLRenderer(...) as renderer" in a deployment.
DeployWithRenderer ==
    /\ table # <<>>
    /\ compiled' = Append(compiled,
                          [model |-> table[1],
                           target_database |-> target_database_override,
                           names |-> ObjectNames(table[1],
                                                 target_database_override)])
    /\ table' = <<>>
    /\ UNCHANGED <<blueprint, target_database_override, compile_error, renderers,
                   otherThanCompiler>>

CompileNext ==
    \/ NewRenderer
    \/ DeployWithRenderer

CompileSpec == CompileInit /\ [][CompileNext]_vars

\* The items the validator's four checks find violated in a blueprint.
Violations(bp) ==
    (IF bp.binding_db = Unbound THEN {<<"binding_db">>} ELSE {})
    \cup (IF bp.binding_schema = Unbound THEN {<<"binding_schema">>} ELSE {})
    \cup {<<bp.columns[i].name>> :
            i \in {j \in 1..Len(bp.columns) : bp.columns[j].binding = Unbound}}
    \cup {<<"primary_node", bp.primary_node.bindings[i].name>> :
            i \in {j \in 1..Len(bp.primary_node.bindings) :
                        bp.primary_node.bindings[j].binding = Unbound}}
    \cup UNION {{<<"secondary_node", bp.secondary_nodes[n].node,
                   bp.secondary_nodes[n].bindings[i].name>> :
                    i \in {j \in 1..Len(bp.secondary_nodes[n].bindings) :
                              bp.secondary_nodes[n].bindings[j].binding = Unbound}} :
                n \in 1..Len(bp.secondary_nodes)}

Items(error) == {error.items[i] : i \in 1..Len(error.items)}

\* C17 (as stated): once a renderer has been requested for a blueprint with
\* any violated check, exactly one error was raised and it lists every
\* violated item.
C17_ValidationAccumulatesAll ==
    (renderers > 0 /\ Violations(blueprint) # {})
    => /\ Len(compile_error) = 1
       /\ Items(compile_error[1]) = Violations(blueprint)

Models == {"d1", "f1", "nb"}

\* C18 (as stated): the attribute-table reference of every dimension and
\* fact, in memory and in the configuration store, is what it was before
\* the run.
C18_OnlyDeployedStateChanges ==
    \A id \in Models :
        /\ attributes[id] = attribute_table(id)
        /\ stored_attributes[id] = attribute_table(id)

\* A SHOW TABLES of the given step ran before statement i of the current
\* unit and found the table.
FoundBefore(i, step) ==
    \E j \in 1..(i - 1) :
        /\ executed[j].kind = "show_tables"
        /\ executed[j].stage = step
        /\ executed[j].found

\* C19 (as stated): a view-creation statement of a unit is executed only
\* after its attribute table and, for a fact, its edge tables were found.
C19_ViewOnlyIfTablesFound ==
    \A i \in 1..Len(executed) :
        executed[i].kind = "create_view"
        => /\ FoundBefore(i, "source_validation")
           /\ executed[i].stage = "fact_view" => FoundBefore(i, "edge_validation")


\* ------------------------- _deploy_single_blueprint (blueprints.py), the
\* ------------------------- deployment of one blueprint without streaming
SyncInit ==
    /\ NoRun
    /\ NoPool
    /\ NoCompile
    /\ NoGrant
    /\ NoPersist
    /\ sync_blueprint \in {"a", "b", "zz"}
    /\ sync_full_refresh \in BOOLEAN
    /\ sync_step = "idle"
    /\ sync_steps_completed = <<>>
    /\ sync_executed = <<>>
    /\ sync_result = "none"

SyncSteps ==
    <<"database_validation", "source_validation", "stage_view", "stream",
      "nodes", "edges", "attributes", "mti", "task", "full_refresh">>

SyncStepAfter(step) ==
    LET i == CHOOSE j \in 1..Len(SyncSteps) : SyncSteps[j] = step
    IN  IF i = Len(SyncSteps) THEN "return"
        ELSE IF SyncSteps[i + 1] = "full_refresh" /\ ~sync_full_refresh
        THEN "return"
        ELSE SyncSteps[i + 1]

\* The statements a step of execute_deployment runs: as in the streaming
\* deployment, except that the task is created and not resumed, and that the
\* INSERT ALL is run only if the parse of the rendered text found it; no
\* warning is reported when it did not.
SyncStepStatements(step, bp, rendered, insert_found) ==
    CASE step = "task" -> <<"task">>
      [] step = "full_refresh" ->
            Truncates(StepStatements(step, bp), rendered)
            \o (IF insert_found THEN <<"insert">> ELSE <<>>)
      [] OTHER -> StepStatements(step, bp)

\* The count queries after the full refresh.
SyncCounts(bp) == Repeat("count", 2 + Len(secondary_nodes(bp)))

\* SQLRenderer(blueprint_id): a blueprint that is not in the configuration
\* raises, and the function returns the failed result.
SyncRenderer ==
    /\ sync_step = "idle"
    /\ IF InConfiguration(sync_blueprint)
       THEN sync_step' = SyncSteps[1] /\ UNCHANGED sync_result
       ELSE sync_step' = "return" /\ sync_result' = "failed"
    /\ UNCHANGED <<sync_blueprint, sync_full_refresh, sync_steps_completed,
                   sync_executed, otherThanSync>>

\* One step of execute_deployment: its statements run in order and the step
\* is appended to steps_completed; the first statement that raises (or a
\* SHOW DATABASES that finds nothing) ends the function with the failed
\* result.  The count queries of the full refresh run inside their own try.
SyncStep ==
    /\ sync_step \in {SyncSteps[i] : i \in 1..Len(SyncSteps)}
    /\ \E rendered \in BOOLEAN, insert_found \in BOOLEAN :
         LET bp == sync_blueprint
             stmts == SyncStepStatements(sync_step, bp, rendered, insert_found)
         IN  /\ sync_step # "full_refresh" => (rendered /\ insert_found)
             /\ ~rendered => ~insert_found
             /\ \/ /\ sync_executed' =
                         sync_executed \o Ran(sync_step, bp, stmts)
                         \o (IF sync_step = "full_refresh"
                             THEN Ran(sync_step, bp, SyncCounts(bp)) ELSE <<>>)
                   /\ sync_steps_completed' = Append(sync_steps_completed, sync_step)
                   /\ sync_step' = SyncStepAfter(sync_step)
                   /\ sync_result' = IF sync_step' = "return" THEN "success"
                                     ELSE sync_result
                \/ /\ sync_step = "full_refresh"
                   /\ \E k \in 1..Len(SyncCounts(bp)) :
                         sync_executed' =
                            sync_executed \o Ran(sync_step, bp, stmts)
                            \o RanUntil(sync_step, bp, SyncCounts(bp), k)
                   /\ sync_steps_completed' = Append(sync_steps_completed, sync_step)
                   /\ sync_step' = "return"
                   /\ sync_result' = "success"
                \/ /\ \E k \in 1..Len(stmts) :
                         sync_executed' =
                            sync_executed \o RanUntil(sync_step, bp, stmts, k)
                   /\ sync_step' = "return"
                   /\ sync_result' = "failed"
                   /\ UNCHANGED sync_steps_completed
                \/ /\ sync_step = "database_validation"
                   /\ sync_executed' = sync_executed \o Ran(sync_step, bp, stmts)
                   /\ sync_step' = "return"
                   /\ sync_result' = "failed"
                   /\ UNCHANGED sync_steps_completed
    /\ UNCHANGED <<sync_blueprint, sync_full_refresh, otherThanSync>>

SyncNext ==
    \/ SyncRenderer
    \/ SyncStep

SyncSpec == SyncInit /\ [][SyncNext]_vars

\* The statement after statement i of a sequence of executed statements.
ResumedNext(seq, i) ==
    /\ i < Len(seq)
    /\ seq[i + 1].kind = "resume"
    /\ seq[i + 1].bp = seq[i].bp

\* C21 (as stated, synchronous path): the statement executed after a
\* successful task creation is the resume of that task, and the task step
\* is in steps_completed only if that resume succeeded.
C21_ResumeFollowsTaskCreation ==
    \A i \in 1..Len(sync_executed) :
        (sync_executed[i].kind = "task" /\ sync_executed[i].ok)
        => /\ (i < Len(sync_executed) \/ sync_step = "return")
                => ResumedNext(sync_executed, i)
           /\ (\E j \in 1..Len(sync_steps_completed) :
                    sync_steps_completed[j] = "task")
                => (ResumedNext(sync_executed, i) /\ sync_executed[i + 1].ok)


\* Every binding of a list of columns or keys is non-empty.
AllBound(bindings) ==
    \A i \in 1..Len(bindings) : bindings[i].binding # Unbound

\* The parts of the data-model invariant that the validator enforces.
BindingsComplete(t) ==
    /\ t.database # Unbound
    /\ t.schema # Unbound
    /\ AllBound(t.columns)
    /\ AllBound(t.primary_node.bindings)
    /\ \A n \in 1..Len(t.secondary_nodes) : AllBound(t.secondary_nodes[n].bindings)

\* C22 (as stated): the table of every renderer that was constructed without
\* error has a primary node with at least one binding column, only
\* non-empty bindings, and a database and a schema.
C22_CompiledModelInvariant ==
    table # <<>>
    => /\ Len(table[1].primary_node.bindings) >= 1
       /\ BindingsComplete(table[1])


\* C29: for every deployed model the node-table statements are the primary
\* node's and then one per secondary node in declared order, whatever the
\* load flags: 1 + (number of secondary nodes) statements.
C29_OneNodeStatementPerNode ==
    \A c \in 1..Len(compiled) :
        LET t == compiled[c].model
            nodes == compiled[c].names.nodes
        IN  /\ Len(nodes) = 1 + Len(t.secondary_nodes)
            /\ nodes[1] = <<"NODE_">> \o upper_clean(t.primary_node.node)
            /\ \A k \in 1..Len(t.secondary_nodes) :
                  nodes[k + 1] = <<"NODE_">> \o upper_clean(t.secondary_nodes[k].node)

\* C29 witness: a deployed model with two secondary nodes, the first of
\* which is not loaded.
C29_Witness ==
    /\ compiled # <<>>
    /\ Len(compiled[1].model.secondary_nodes) = 2
    /\ ~compiled[1].model.secondary_nodes[1].load
    /\ compiled[1].model.secondary_nodes[2].load
    /\ Len(compiled[1].names.nodes) = 3


\* The statements of the current unit that the edges step ran for bp.
EdgeStatements(bp) ==
    {j \in 1..Len(executed) : executed[j].stage = "edges" /\ executed[j].bp = bp}

EdgeStages == {"edges", "build_relationships"}

\* C30: when the edges step of a blueprint is complete it has executed one
\* edge statement per secondary node; for a blueprint without secondary
\* nodes no statement of the edges step is executed and none fails.
C30_OneEdgeStatementPerPair ==
    /\ \A i \in 1..Len(unit_log) :
          (unit_log[i].step = "edges" /\ unit_log[i].status = "complete")
          => /\ Cardinality(EdgeStatements(unit_log[i].bp))
                    = Len(secondary_nodes(unit_log[i].bp))
             /\ \A j \in EdgeStatements(unit_log[i].bp) :
                    executed[j].kind = "edge" /\ executed[j].ok
    /\ \A j \in 1..Len(executed) :
          executed[j].stage \in EdgeStages => secondary_nodes(executed[j].bp) # <<>>
    /\ \A f \in 1..Len(fault_log) :
          fault_log[f].stage \in EdgeStages => secondary_nodes(fault_log[f].bp) # <<>>

\* C30 witness: the edges step of blueprint b, which has no secondary node,
\* is complete.
C30_Witness ==
    /\ entry = "blueprints_follow"
    /\ \E i \in 1..Len(unit_log) :
          /\ unit_log[i].step = "edges"
          /\ unit_log[i].status = "complete"
          /\ unit_log[i].bp = "b"
    /\ EdgeStatements("b") = {}


\* ------------------------------------------------------------ C23, C24
\* The statements that create an object of a model's deployment.
ObjectKinds == {"view", "stream", "task", "node", "edge", "attribute", "create_view"}

\* Statement i of the current unit created an object.
Created(i) == executed[i].kind \in ObjectKinds /\ executed[i].ok

\* A statement of the given kind follows statement i for the same blueprint
\* in the same stage.
FollowedBy(i, kind) ==
    \E j \in (i + 1)..Len(executed) :
        /\ executed[j].kind = kind
        /\ executed[j].stage = executed[i].stage
        /\ executed[j].bp = executed[i].bp

\* C23 (as stated): while a model that declares access roles is deployed,
\* every object-creating statement that succeeded is followed by a grant on
\* that object.
C23_GrantAfterEachObject ==
    (pc = "unit" /\ HasRoles(model_ids[current]))
    => \A i \in 1..Len(executed) : Created(i) => FollowedBy(i, "grant")

\* C24 (as stated): while a model that declares domain/process tags is
\* deployed through the staged endpoint, every object-creating statement
\* that succeeded is followed by a tag-set statement on that object.
C24_TagAfterEachObject ==
    (pc = "unit" /\ entry = "dimensional_models_staged" /\ HasTags(model_ids[current]))
    => \A i \in 1..Len(executed) : Created(i) => FollowedBy(i, "tag")


\* ------------------------------ _grant_access_to_object (utilities.py)
OBJECT_PRIVILEGE_MAP ==
    [t \in {"TABLE", "VIEW", "STREAM", "TASK"} |->
        IF t = "TASK" THEN "OPERATE" ELSE "SELECT"]

\* The roles lists of a call: an entry may be empty.
RoleLists == UNION {[1..n -> {"analyst", "ops", ""}] : n \in 0..MaxRoles}

GrantInit ==
    /\ NoRun
    /\ NoPool
    /\ NoCompile
    /\ NoSync
    /\ NoPersist
    /\ grant_object_type \in {"TABLE", "VIEW", "STREAM", "TASK", "PROCEDURE"}
    /\ grant_object_name \in {"null", "OBJ"}
    /\ grant_roles \in RoleLists
    /\ grant_role = 0
    /\ grant_next = 1
    /\ grant_executed = <<>>

\* The object-level grant issued before the container-level grants.
GrantSequenceObjectFirst ==
    <<"create_role", "grant", "usage_database", "usage_schema">>

\* The statements run for one role, in order.
GrantSequence == <<"create_role", "usage_database", "usage_schema", "grant">>

\* The first index from i on whose role is not empty ("if not role:
\* continue"), or one past the list.
RECURSIVE NextRole(_)
NextRole(i) ==
    IF i > Len(grant_roles) THEN i
    ELSE IF grant_roles[i] = "" THEN NextRole(i + 1)
    ELSE i

\* The call: without roles, object name or privilege it returns at once.
GrantEnter ==
    /\ grant_role = 0
    /\ grant_role' =
          IF \/ grant_roles = <<>>
             \/ grant_object_name = "null"
             \/ grant_object_type \notin DOMAIN OBJECT_PRIVILEGE_MAP
          THEN Len(grant_roles) + 1
          ELSE NextRole(1)
    /\ UNCHANGED <<grant_object_type, grant_object_name, grant_roles, grant_next,
                   grant_executed, otherThanGrant>>

\* One statement for the current role, inside its own try: it succeeds, or
\* it raises and a warning is logged; either way the next one follows.
GrantStatement ==
    /\ grant_role \in 1..Len(grant_roles)
    /\ \E ok \in BOOLEAN :
          grant_executed' =
             Append(grant_executed,
                    [role |-> grant_roles[grant_role],
                     kind |-> GrantSequence[grant_next],
                     privilege |-> IF GrantSequence[grant_next] = "grant"
                                   THEN OBJECT_PRIVILEGE_MAP[grant_object_type]
                                   ELSE "USAGE",
                     ok |-> ok])
    /\ IF grant_next < Len(GrantSequence)
       THEN grant_next' = grant_next + 1 /\ UNCHANGED grant_role
       ELSE grant_next' = 1 /\ grant_role' = NextRole(grant_role + 1)
    /\ UNCHANGED <<grant_object_type, grant_object_name, grant_roles,
                   otherThanGrant>>

GrantNext ==
    \/ GrantEnter
    \/ GrantStatement

GrantSpec == GrantInit /\ [][GrantNext]_vars

\* C25: every object-level grant comes right after the creation of its role,
\* the USAGE grant on the database and the USAGE grant on the schema for
\* that role, in this order, whether or not these succeeded.
C25_GrantOrder ==
    \A j \in 1..Len(grant_executed) :
        grant_executed[j].kind = "grant"
        => /\ j >= 4
           /\ grant_executed[j - 3].kind = "create_role"
           /\ grant_executed[j - 2].kind = "usage_database"
           /\ grant_executed[j - 1].kind = "usage_schema"
           /\ \A k \in (j - 3)..(j - 1) :
                 grant_executed[k].role = grant_executed[j].role

\* C25 witness: two roles were granted access, and for the second one the
\* creation of the role had raised.
C25_Witness ==
    /\ Len(grant_executed) = 8
    /\ grant_executed[8].kind = "grant"
    /\ grant_executed[8].role # grant_executed[4].role
    /\ ~grant_executed[5].ok
    /\ grant_executed[8].ok

\* The units of the run that were processed for one dimension or fact, and
\* the status writes the configuration store received for it.
ProcessedUnits(id) == SelectSeq(unit_result, LAMBDA u : u.started /\ u.id = id)

\* A processed unit succeeded when its complete event was seen and nothing
\* failed in it afterwards.
Succeeded(u) == u.complete /\ u.failure_events = 0

WritesOf(id) == SelectSeq(status_writes, LAMBDA w : w.id = id)

\* C26: between units and at the end of a run of the dimensional-models
\* follow endpoint or of the staged endpoint, every dimension or fact the run
\* processed has had its deployed status written exactly once per processing:
\* the view name with no error when the unit succeeded, a null deployed with
\* the error text when it failed.
C26_StatusWrittenOnce ==
    (entry # "blueprints_follow" /\ pc \in {"next_unit", "done"}) =>
        \A id \in Models :
            /\ Len(WritesOf(id)) = Len(ProcessedUnits(id))
            /\ \A n \in 1..Len(WritesOf(id)) :
                  WritesOf(id)[n] = StatusWrite(id, Succeeded(ProcessedUnits(id)[n]))

\* The executed statements of one kind of the full refresh of the current
\* unit, by position.
RefreshStatements(kind) ==
    {i \in 1..Len(executed) :
        /\ executed[i].stage = "full_refresh"
        /\ executed[i].kind = kind}

\* C27 (as stated, streaming blueprint deployment): when the full refresh
\* of a blueprint is over and the deployment goes on to report it complete,
\* the multi-table insert was executed exactly once, it succeeded, and every
\* truncate was executed before it.
C27_InsertBeforeRefreshComplete ==
    (entry = "blueprints_follow" /\ run_full_refresh /\ pc = "unit"
        /\ ipc = "complete")
    => /\ Cardinality(RefreshStatements("insert")) = 1
       /\ \A i \in RefreshStatements("insert") :
             /\ executed[i].ok
             /\ \A j \in RefreshStatements("truncate") : j < i

\* The <unit>_start event types and the <unit>_complete type of each.
StartTypes == {"blueprint_start", "model_start", "dimension_start", "fact_start"}

CompleteOf(start) ==
    CASE start = "blueprint_start" -> "blueprint_complete"
      [] start = "model_start" -> "model_complete"
      [] start = "dimension_start" -> "dimension_complete"
      [] start = "fact_start" -> "fact_complete"

\* The <unit>_start and <unit>_complete events of the stream, in order.
UnitMarks ==
    SelectSeq(deployment_events,
              LAMBDA e : e \in StartTypes \/ \E st \in StartTypes : e = CompleteOf(st))

\* C28 (as stated): the <unit>_start and <unit>_complete events of a run
\* alternate, each start being followed by the complete event of the same
\* unit before any other unit starts, and once the generator has left a
\* unit (it is between units or past the loop, the consumer still
\* connected) every start has had its complete event.
C28_UnitsOneAtATime ==
    /\ \A k \in 1..Len(UnitMarks) :
          IF k % 2 = 1 THEN UnitMarks[k] \in StartTypes
          ELSE UnitMarks[k] = CompleteOf(UnitMarks[k - 1])
    /\ (~disconnected /\ pc \notin {"unit", "unit_done", "unit_exc"})
          => Len(UnitMarks) % 2 = 0

\* C31 (as stated): the physical table name of every renderer that was
\* constructed is the binding object of its raw blueprint record, and so is
\* never the display name of the record.
C31_TableNameFromBindingObject ==
    table # <<>>
    => /\ table[1].name = blueprint.binding_object
       /\ table[1].name # blueprint.name

\* The creation statement of a tracked object succeeded: the n-th executed
\* statement of its kind exists and did not raise.
CreationSucceeded(o) ==
    \E j \in 1..Len(executed) :
        /\ executed[j].kind = o.kind
        /\ executed[j].ok
        /\ Cardinality({h \in 1..j : executed[h].kind = o.kind}) = o.n

\* C32 (as stated): at every point of a streaming blueprint deployment the
\* tracked deployed-object list holds only objects whose creation statement
\* has succeeded.
C32_TrackedObjectsWereCreated ==
    entry = "blueprints_follow"
    => \A i \in 1..Len(deployed_objects) : CreationSucceeded(deployed_objects[i])


\* ------------------------------------------ core/deployment_logs.py
\* One call of persist_deployment_log.  The payload is known by how
\* json.dumps treats it: "plain" holds JSON values only, "needs_default"
\* holds a value json cannot encode (a datetime, a set, an object),
\* "bad_key" holds a dict key that is not a str, int, float, bool or None,
\* "circular" holds a container that contains itself.
PayloadKinds == {"plain", "needs_default", "bad_key", "circular"}

PersistInit ==
    /\ NoRun
    /\ NoPool
    /\ NoCompile
    /\ NoSync
    /\ NoGrant
    /\ persist_args \in [deployment_type : EntryPoints,
                          status : {"success", "partial", "failed"},
                          configured : BOOLEAN,
                          payload : PayloadKinds,
                          insert : {"ok", "connect_raises", "run_raises"}]
    /\ persist_pc = "called"
    /\ persist_json = "none"
    /\ persist_rows = <<>>

\* json.dumps(target, default=_json_default): _json_default turns every value
\* json cannot encode into a string, so the TypeError left is the one for a
\* dict key, and a container that contains itself is a ValueError.
json_dumps(payload) ==
    CASE payload = "bad_key" -> "TypeError"
      [] payload = "circular" -> "ValueError"
      [] OTHER -> "ok"

\* _to_json_param: "except TypeError" coerces the payload to its str();
\* another exception of json.dumps leaves the function.
_to_json_param(payload) ==
    LET first == json_dumps(payload)
    IN  IF first = "ok" THEN [json |-> "json", raised |-> "none"]
        ELSE IF first = "TypeError" THEN [json |-> "coerced", raised |-> "none"]
        ELSE [json |-> "none", raised |-> first]

\* _get_deployment_logs_table_name: None when the configuration is
\* incomplete, and then the function returns at once.
GetTableName ==
    /\ persist_pc = "called"
    /\ persist_pc' = IF persist_args.configured THEN "serialise" ELSE "returned"
    /\ UNCHANGED <<persist_args, persist_json, persist_rows, otherThanPersist>>

\* deployment_log_json = _to_json_param(deployment_log_data, {}): the call
\* is outside the try block of the function.
ToJsonParam ==
    /\ persist_pc = "serialise"
    /\ LET r == _to_json_param(persist_args.payload)
       IN  /\ persist_json' = r.json
           /\ persist_pc' = IF r.raised = "none" THEN "insert" ELSE "raised"
    /\ UNCHANGED <<persist_args, persist_rows, otherThanPersist>>

\* The try block: "with SnowflakeClient() as client: client.run(insert_sql,
\* payload)"; "except Exception" logs the error and the function returns.
InsertLog ==
    /\ persist_pc = "insert"
    /\ persist_rows' = IF persist_args.insert = "ok"
                       THEN Append(persist_rows,
                                   [deployment_type |-> persist_args.deployment_type,
                                    status |-> persist_args.status,
                                    deployment_log |-> persist_json])
                       ELSE persist_rows
    /\ persist_pc' = "returned"
    /\ UNCHANGED <<persist_args, persist_json, otherThanPersist>>

PersistNext ==
    \/ GetTableName
    \/ ToJsonParam
    \/ InsertLog

PersistSpec == PersistInit /\ [][PersistNext]_vars

CleanUnits(id) ==
    {k \in 1..Len(unit_result) :
        unit_result[k].id = id /\ unit_result[k].failure_events = 0}

\* C34 (as stated): a unit in whose stream an event with status failed was
\* emitted is not listed as successful (per id, the successful list holds no
\* more occurrences than there are units without a failure event), and the
\* persisted status of a run with such an event is not success.
C34_FailureEventNotSuccess ==
    /\ \A id \in Models \cup BlueprintIds \cup {"zz"} :
          Count(successful, id) <= Cardinality(CleanUnits(id))
    /\ \A r \in 1..Len(audit_log) :
          (\E k \in 1..Len(unit_result) : unit_result[k].failure_events > 0)
          => audit_log[r].status # "success"

C36_HeldConnectionStaysOpen ==
    \A r \in Runs :
        run_pc[r] = "entered" => client_conn[r] \in open_connections

\* The object names _deploy_model_staged_streaming builds from the raw
\* blueprint record for tags, grants, the task resume and events: the node
\* names and the binding object are upper-cased, nothing else; without a
\* binding object the stream and task names are None.
StagedObjectNames(bp) ==
    [stream |-> IF bp.binding_object # Unbound
                THEN <<"STREAM_">> \o upper(bp.binding_object) ELSE Unbound,
     task |-> IF bp.binding_object # Unbound
              THEN <<"TASK_">> \o upper(bp.binding_object) ELSE Unbound,
     nodes |-> <<<<"NODE_">> \o upper(bp.primary_node.node)>>
               \o [i \in 1..Len(bp.secondary_nodes) |->
                      <<"NODE_">> \o upper(bp.secondary_nodes[i].node)],
     edges |-> [i \in 1..Len(bp.secondary_nodes) |->
                  <<"EDGE_">> \o upper(bp.primary_node.node) \o <<"_">>
                  \o upper(bp.secondary_nodes[i].node)]]

\* C37 (as stated): for every deployed blueprint the names the staged
\* orchestrator builds from the raw record are the names of the objects the
\* compiler created from the canonical model: node tables, edge tables,
\* stream and task.
C37_StagedNamesMatchCompiled ==
    \A c \in 1..Len(compiled) :
        LET created == compiled[c].names
            used == StagedObjectNames(blueprint)
        IN  /\ used.nodes = created.nodes
            /\ used.edges = created.edges
            /\ used.stream = created.stream
            /\ used.task = created.task

\* The statements of one step of one blueprint that were executed without
\* raising.
StatementsRun(step, bp) ==
    {i \in 1..Len(executed) :
        /\ executed[i].stage = step
        /\ executed[i].bp = bp
        /\ executed[i].ok}

\* C38 (as stated, streaming blueprint deployment): a step is reported
\* complete (its SUCCESS event with status complete is in the stream) only
\* if every statement the step needs was generated and run; a template that
\* failed to render leaves the step without that event.
C38_CompleteOnlyIfGenerated ==
    entry = "blueprints_follow"
    => \A e \in 1..Len(unit_log) :
          (/\ unit_log[e].level = "SUCCESS"
           /\ unit_log[e].status = "complete"
           /\ unit_log[e].step \in {BlueprintSteps[i] : i \in 1..Len(BlueprintSteps)})
          => Cardinality(StatementsRun(unit_log[e].step, unit_log[e].bp))
                >= Len(StepStatements(unit_log[e].step, unit_log[e].bp))

\* The run-level terminal events handed to the stream so far.
RunTerminals ==
    {i \in 1..Len(deployment_events) : deployment_events[i] \in {"complete", "error"}}

\* C39 (as stated): a run never has more than one run-level terminal event,
\* and when its close event is in the stream exactly one terminal event,
\* complete or error, precedes it.
C39_OneRunTerminalBeforeClose ==
    /\ Cardinality(RunTerminals) <= 1
    /\ \A c \in 1..Len(deployment_events) :
          deployment_events[c] = "close"
          => \E i \in RunTerminals : i < c
====
